---- MODULE Spec2Model ----
(***************************************************************************)
(* Rowguard (ts-to-rls): fluent builders that render PostgreSQL row-level  *)
(* security policies.  Text is modelled character by character: a string   *)
(* is a sequence of one-character strings, so escaping, sanitizing and     *)
(* clause assembly are computed the way the TypeScript computes them.      *)
(* An optional field (undefined in the source) is the empty tuple None;    *)
(* a field that was set is the one-element tuple Some(v).                  *)
(***************************************************************************)
EXTENDS Integers, Sequences, FiniteSets, TLC

VARIABLES
    nameArg,    \* the name argument policy(name?) was called with
    state,      \* PolicyBuilder.state of the builder driven through the user-focused API
    rls,        \* state of a twin PolicyBuilder driven through the RLS-focused API
    last,       \* the builder call made last: [m |-> method, arg |-> its argument]
    ret,        \* what the last call on the builder returned or threw
    retRls,     \* what the matching call on the twin returned or threw
    typeCall,   \* the last call among restrictive/requireAll/permissive/allowAny
    chains,     \* the ConditionChain objects constructed so far, in order of construction
    sb,         \* the SubqueryBuilder's private fields
    mem,        \* the membership condition column(..).in(builder), once made
    sbLast,     \* the SubqueryBuilder call made last
    sbRet,      \* what the last SubqueryBuilder call returned or threw
    input,      \* the text the functions of sql.ts are called with
    otherName,  \* a second, long policy name
    out         \* the sql.ts function called last and its result

vars == <<nameArg, state, rls, last, ret, retRls, typeCall, chains, sb, mem, sbLast, sbRet,
         input, otherName, out>>

None == <<>>
Some(v) == <<v>>

\* JavaScript truthiness of an optional string: undefined and "" are falsy.
Truthy(opt) == opt # None /\ opt[1] # <<>>

-----------------------------------------------------------------------------
(* Text primitives (JavaScript String methods used by the source).         *)

Ascii ==
    <<" ","!","\"","#","$","%","&","'","(",")","*","+",",","-",".","/",
      "0","1","2","3","4","5","6","7","8","9",":",";","<","=",">","?","@",
      "A","B","C","D","E","F","G","H","I","J","K","L","M","N","O","P","Q",
      "R","S","T","U","V","W","X","Y","Z","[","\\","]","^","_","grave",
      "a","b","c","d","e","f","g","h","i","j","k","l","m","n","o","p","q",
      "r","s","t","u","v","w","x","y","z","{","|","}","~">>

\* Position 65 (code 96, the grave accent) is held by a placeholder.
AsciiCode ==
    [c \in {Ascii[i] : i \in 1..Len(Ascii)} |->
        31 + CHOOSE i \in 1..Len(Ascii) : Ascii[i] = c]

\* String.prototype.charCodeAt for printable ASCII: the space is 32, the tilde 126.
CharCode(c) == AsciiCode[c]

IsDigit(c) == CharCode(c) >= 48 /\ CharCode(c) <= 57
IsUpper(c) == CharCode(c) >= 65 /\ CharCode(c) <= 90
IsLower(c) == CharCode(c) >= 97 /\ CharCode(c) <= 122

ToLowerChar(c) == IF IsUpper(c) THEN Ascii[CharCode(c) + 1] ELSE c
ToLowerCase(s) == [i \in 1..Len(s) |-> ToLowerChar(s[i])]

\* s without its leading and trailing run of the character ch.
StripChar(s, ch) ==
    IF \A i \in 1..Len(s) : s[i] = ch THEN <<>>
    ELSE SubSeq(s,
                CHOOSE i \in 1..Len(s) : s[i] # ch /\ \A j \in 1..(i - 1) : s[j] = ch,
                CHOOSE i \in 1..Len(s) : s[i] # ch /\ \A j \in (i + 1)..Len(s) : s[j] = ch)

\* String.prototype.trim; the only whitespace of the alphabet is the space.
Trim(s) == StripChar(s, " ")

\* String.prototype.substring(0, n)
Substring0(s, n) == SubSeq(s, 1, IF n < Len(s) THEN n ELSE Len(s))

\* String.prototype.includes(".")
IncludesDot(s) == \E i \in 1..Len(s) : s[i] = "."

\* Concatenation of the texts ss[lo..hi], by halves to keep the evaluation shallow.
RECURSIVE ConcatRange(_, _, _)
ConcatRange(ss, lo, hi) ==
    IF lo > hi THEN <<>>
    ELSE IF lo = hi THEN ss[lo]
    ELSE LET mid == (lo + hi) \div 2
         IN  ConcatRange(ss, lo, mid) \o ConcatRange(ss, mid + 1, hi)

Concat(ss) == ConcatRange(ss, 1, Len(ss))

\* The elements of s at the positions in keep, in order.
SelectAt(s, keep) ==
    Concat([i \in 1..Len(s) |-> IF i \in keep THEN <<s[i]>> ELSE <<>>])

\* Array.prototype.join(sep)
Join(ss, sep) ==
    Concat([k \in 1..(IF ss = <<>> THEN 0 ELSE 2 * Len(ss) - 1) |->
               IF k % 2 = 1 THEN ss[(k + 1) \div 2] ELSE sep])

StartsWith(s, p) == Len(p) <= Len(s) /\ SubSeq(s, 1, Len(p)) = p
EndsWith(s, p) == Len(p) <= Len(s) /\ SubSeq(s, Len(s) - Len(p) + 1, Len(s)) = p

\* The positions at which text p occurs in text s.
Occurrences(s, p) ==
    {i \in 1..(Len(s) - Len(p) + 1) : SubSeq(s, i, i + Len(p) - 1) = p}
Contains(s, p) == Occurrences(s, p) # {}

-----------------------------------------------------------------------------
(* src/src/sql.ts                                                          *)

POSTGRES_MAX_IDENTIFIER_LENGTH == 63

HexDigits == <<"0","1","2","3","4","5","6","7","8","9","a","b","c","d","e","f">>

\* Number.prototype.toString(16) of a 16-bit half, with or without leading zeros.
Hex4(n) ==
    <<HexDigits[(n \div 4096) + 1], HexDigits[((n \div 256) % 16) + 1],
      HexDigits[((n \div 16) % 16) + 1], HexDigits[(n % 16) + 1]>>

RECURSIVE StripLeadingZeros(_)
StripLeadingZeros(s) ==
    IF Len(s) > 1 /\ s[1] = "0" THEN StripLeadingZeros(Tail(s)) ELSE s

\* The loop of simpleHash.  The 32-bit hash is kept as two 16-bit halves
\* <<hi, lo>>: ((hash << 5) - hash) + char, then hash & hash, is
\* 31 * hash + char modulo 2^32.
HashStep(h, char) ==
    LET lo == h[2] * 31 + char
        hi == h[1] * 31 + (lo \div 65536)
    IN  <<hi % 65536, lo % 65536>>

\* The iterations i..j of the loop, started from h.  The range is split by
\* halves and h (never negative) is evaluated on entry, which keeps the
\* evaluation shallow on long names.
RECURSIVE HashLoop(_, _, _, _)
HashLoop(str, i, j, h) ==
    IF i > j \/ h[1] < 0 THEN h
    ELSE IF i = j THEN HashStep(h, CharCode(str[i]))
    ELSE LET mid == (i + j) \div 2
         IN  HashLoop(str, mid + 1, j, HashLoop(str, i, mid, h))

\* Math.abs of the signed 32-bit value held in <<hi, lo>>.
AbsInt32(h) ==
    IF h[1] < 32768 THEN h
    ELSE <<(65535 - h[1] + (IF h[2] = 0 THEN 1 ELSE 0)) % 65536,
           (65536 - h[2]) % 65536>>

simpleHash(str) ==
    LET a == AbsInt32(HashLoop(str, 1, Len(str), <<0, 0>>))
        hex == IF a[1] = 0 THEN StripLeadingZeros(Hex4(a[2]))
               ELSE StripLeadingZeros(Hex4(a[1])) \o Hex4(a[2])
    IN  Substring0(hex, 6)

\* sanitized.replace(/[^a-z0-9_]/g, "_")
ReplaceInvalid(s) ==
    [i \in 1..Len(s) |->
        IF IsLower(s[i]) \/ IsDigit(s[i]) \/ s[i] = "_" THEN s[i] ELSE "_"]

\* sanitized.replace(/_+/g, "_")
CollapseUnderscores(s) ==
    SelectAt(s, {i \in 1..Len(s) : ~(s[i] = "_" /\ i > 1 /\ s[i - 1] = "_")})

\* sanitized.replace(/^_+|_+$/g, "")
StripUnderscores(s) == StripChar(s, "_")

Threw(msg) == [ok |-> FALSE, err |-> msg]
Value(v) == [ok |-> TRUE, v |-> v]

\* A variant that returns whatever sanitization leaves, an empty name included.
sanitizePolicyNameAnyResult(name) ==
    IF name = <<>> \/ Trim(name) = <<>>
    THEN Threw("Policy name cannot be empty")
    ELSE Value(StripUnderscores(CollapseUnderscores(ReplaceInvalid(ToLowerCase(name)))))

\* A variant that leaves one character too many before the hash suffix.
sanitizePolicyNameLongBase(name) ==
    IF name = <<>> \/ Trim(name) = <<>>
    THEN Threw("Policy name cannot be empty")
    ELSE
      LET stripped == StripUnderscores(CollapseUnderscores(ReplaceInvalid(ToLowerCase(name))))
          sanitized == IF stripped # <<>> /\ IsDigit(stripped[1])
                       THEN <<"_">> \o stripped ELSE stripped
      IN  IF Len(sanitized) = 0
          THEN Threw("results in an empty identifier after sanitization")
          ELSE IF Len(sanitized) > POSTGRES_MAX_IDENTIFIER_LENGTH
          THEN LET hash == simpleHash(name)
                   maxBaseLength == POSTGRES_MAX_IDENTIFIER_LENGTH - Len(hash)
               IN  Value(Substring0(sanitized, maxBaseLength) \o <<"_">> \o hash)
          ELSE Value(sanitized)

sanitizePolicyName(name) ==
    IF name = <<>> \/ Trim(name) = <<>>
    THEN Threw("Policy name cannot be empty")
    ELSE
      LET stripped == StripUnderscores(CollapseUnderscores(ReplaceInvalid(ToLowerCase(name))))
          sanitized == IF stripped # <<>> /\ IsDigit(stripped[1])
                       THEN <<"_">> \o stripped ELSE stripped
      IN  IF Len(sanitized) = 0
          THEN Threw("results in an empty identifier after sanitization")
          ELSE IF Len(sanitized) > POSTGRES_MAX_IDENTIFIER_LENGTH
          THEN LET hashSuffix == <<"_">> \o simpleHash(name)
                   maxBaseLength == POSTGRES_MAX_IDENTIFIER_LENGTH - Len(hashSuffix)
               IN  Value(Substring0(sanitized, maxBaseLength) \o hashSuffix)
          ELSE Value(sanitized)

\* String.prototype.replace of every occurrence of the quote character q by q q
DoubleChar(s, q) == Concat([i \in 1..Len(s) |-> IF s[i] = q THEN <<q, q>> ELSE <<s[i]>>])

\* A variant that wraps the identifier without doubling its double quotes.
escapeIdentifierNoDoubling(identifier) ==
    IF \E i \in 1..Len(identifier) :
          ~(IsLower(identifier[i]) \/ IsUpper(identifier[i])
            \/ IsDigit(identifier[i]) \/ identifier[i] = "_")
    THEN <<"\"">> \o identifier \o <<"\"">>
    ELSE identifier

escapeIdentifier(identifier) ==
    IF \E i \in 1..Len(identifier) :
          ~(IsLower(identifier[i]) \/ IsUpper(identifier[i])
            \/ IsDigit(identifier[i]) \/ identifier[i] = "_")
    THEN <<"\"">> \o DoubleChar(identifier, "\"") \o <<"\"">>
    ELSE identifier

\* Values a comparison can hold.  Each kind keeps its payload under its
\* own field (typeof / instanceof in the source).
NullValue == [vt |-> "null"]
BooleanValue(b) == [vt |-> "boolean", b |-> b]
NumberValue(n) == [vt |-> "number", n |-> n]
StringValue(s) == [vt |-> "string", s |-> s]

\* src/src/context.ts: auth.uid()
AuthUid == [vt |-> "context", contextType |-> "auth_uid"]

\* src/src/context.ts: session.get(key, type)
SessionVariableTypes == {"text", "integer", "uuid", "boolean", "timestamp"}

SessionGet(key, type) ==
    [vt |-> "context", contextType |-> "session", key |-> key, sessionType |-> type]

TypeCast(type) ==
    CASE type = "integer" -> <<":",":","I","N","T","E","G","E","R">>
      [] type = "uuid" -> <<":",":","U","U","I","D">>
      [] type = "boolean" -> <<":",":","B","O","O","L","E","A","N">>
      [] type = "timestamp" -> <<":",":","T","I","M","E","S","T","A","M","P">>
      [] OTHER -> <<>>

\* The toSQL closure of a context value.
ContextToSQL(value) ==
    IF value.contextType = "auth_uid"
    THEN <<"a","u","t","h",".","u","i","d","(",")">>
    ELSE IF value.contextType = "session"
    THEN <<"c","u","r","r","e","n","t","_","s","e","t","t","i","n","g","(","'">>
             \o value.key \o <<"'",","," ","t","r","u","e",")">> \o TypeCast(value.sessionType)
    ELSE <<"c","u","r","r","e","n","t","_","u","s","e","r">>

\* String(value) of a non-negative integer.
RECURSIVE NumberToString(_)
NumberToString(n) ==
    IF n < 10 THEN <<HexDigits[n + 1]>>
    ELSE NumberToString(n \div 10) \o <<HexDigits[(n % 10) + 1]>>

\* A variant that wraps a string without doubling its single quotes.
escapeValueNoDoubling(value) ==
    CASE value.vt = "null" -> <<"N","U","L","L">>
      [] value.vt = "boolean" ->
            IF value.b THEN <<"T","R","U","E">> ELSE <<"F","A","L","S","E">>
      [] value.vt = "number" -> NumberToString(value.n)
      [] value.vt = "string" -> <<"'">> \o value.s \o <<"'">>
      [] value.vt = "context" -> ContextToSQL(value)

escapeValue(value) ==
    CASE value.vt = "null" -> <<"N","U","L","L">>
      [] value.vt = "boolean" ->
            IF value.b THEN <<"T","R","U","E">> ELSE <<"F","A","L","S","E">>
      [] value.vt = "number" -> NumberToString(value.n)
      [] value.vt = "string" -> <<"'">> \o DoubleChar(value.s, "'") \o <<"'">>
      [] value.vt = "context" -> ContextToSQL(value)

operatorMap(operator) ==
    CASE operator = "eq" -> <<"=">>
      [] operator = "neq" -> <<"!","=">>
      [] operator = "gt" -> <<">">>
      [] operator = "gte" -> <<">","=">>
      [] operator = "lt" -> <<"<">>
      [] operator = "lte" -> <<"<","=">>

createComparison(column, operator, value) ==
    [type |-> "comparison", column |-> column, operator |-> operator, value |-> value]

\* The toSQL closure of the object createComparison returns.
ComparisonToSQL(c) ==
    escapeIdentifier(c.column) \o <<" ">> \o operatorMap(c.operator)
        \o <<" ">> \o escapeValue(c.value)

-----------------------------------------------------------------------------
(* ConditionChain and the condition objects of the column builder          *)
(* (src/demo/vite-plugin-migrations.ts, from line 205 on).                 *)

\* ColumnBuilder.eq
eq(columnName, value) == createComparison(columnName, "eq", value)

LogicalCondition(operator, conditions) ==
    [type |-> "logical", operator |-> operator, conditions |-> conditions]

\* alwaysTrue()
AlwaysTrue == [type |-> "helper", helperType |-> "alwaysTrue"]

\* ColumnBuilder.in with an array of values.
inValues(columnName, values) ==
    [type |-> "membership", column |-> columnName, operator |-> "in",
     value |-> [vt |-> "array", items |-> values]]

\* ColumnBuilder.isMemberOf(joinTable, foreignKey, localKey)
isMemberOf(joinTable, foreignKey, localKey) ==
    [type |-> "helper", helperType |-> "isMemberOf",
     params |-> [joinTable |-> joinTable, foreignKey |-> foreignKey,
                 localKey |-> localKey]]

\* The line break and indentation of the template literal of isMemberOf.
TemplateIndent(n) == <<"\n">> \o [k \in 1..n |-> " "]

MembershipValuesToSQL(c) ==
    escapeIdentifier(c.column) \o <<" ","I","N"," ","(">>
        \o Join([i \in 1..Len(c.value.items) |-> escapeValue(c.value.items[i])],
                <<",", " ">>)
        \o <<")">>

IsMemberOfToSQL(c) ==
    escapeIdentifier(c.params.localKey) \o <<" ","I","N"," ","(">>
        \o TemplateIndent(10) \o <<"S","E","L","E","C","T"," ">>
        \o escapeIdentifier(c.params.foreignKey)
        \o TemplateIndent(10) \o <<"F","R","O","M"," ">>
        \o escapeIdentifier(c.params.joinTable)
        \o TemplateIndent(10) \o <<"W","H","E","R","E"," ">>
        \o escapeIdentifier(<<"u","s","e","r","_","i","d">>) \o <<" ","="," ">>
        \o ContextToSQL(AuthUid)
        \o TemplateIndent(8) \o <<")">>

\* Condition.toSQL(): dispatch on the object that carries the closure.
RECURSIVE CondToSQL(_)
LogicalToSQL(c) ==
    <<"(">> \o Join([i \in 1..Len(c.conditions) |-> CondToSQL(c.conditions[i])],
                    <<" ">> \o (IF c.operator = "AND" THEN <<"A","N","D">> ELSE <<"O","R">>)
                        \o <<" ">>)
        \o <<")">>

\* SubqueryBuilder.toSubquery and subqueryToSQL, which the toSQL closure of
\* a condition in(builder) calls.

\* A variant that puts the join added last into the definition.
toSubqueryLastJoin(b) ==
    [from |-> b.from,
     select |-> b.select,
     alias |-> IF Truthy(b.fromAlias) THEN b.fromAlias ELSE None,
     where |-> b.where,
     join |-> IF Len(b.joins) > 0
              THEN Some([table |-> b.joins[Len(b.joins)].table,
                         alias |-> b.joins[Len(b.joins)].alias,
                         on |-> b.joins[Len(b.joins)].on,
                         type |-> b.joins[Len(b.joins)].type])
              ELSE None]

\* toSubquery(): only the first join goes into the definition.
toSubquery(b) ==
    [from |-> b.from,
     select |-> b.select,
     alias |-> IF Truthy(b.fromAlias) THEN b.fromAlias ELSE None,
     where |-> b.where,
     join |-> IF Len(b.joins) > 0
              THEN Some([table |-> b.joins[1].table, alias |-> b.joins[1].alias,
                         on |-> b.joins[1].on, type |-> b.joins[1].type])
              ELSE None]

\* (join.type || "inner").toUpperCase()
JoinTypeText(type) ==
    CASE type = "inner" -> <<"I","N","N","E","R">>
      [] type = "left" -> <<"L","E","F","T">>
      [] type = "right" -> <<"R","I","G","H","T">>
      [] type = "full" -> <<"F","U","L","L">>

\* src/src/sql.ts: subqueryToSQL
subqueryToSQL(subquery) ==
    LET from == escapeIdentifier(subquery.from)
        alias == IF Truthy(subquery.alias)
                 THEN <<" ">> \o escapeIdentifier(subquery.alias[1]) ELSE <<>>
        selected ==
            IF subquery.select.vt = "array"
            THEN Join([i \in 1..Len(subquery.select.items) |->
                          escapeIdentifier(subquery.select.items[i])], <<",", " ">>)
            ELSE escapeIdentifier(subquery.select.s)
        joinClause ==
            IF subquery.join # None
            THEN LET j == subquery.join[1]
                 IN  <<" ">> \o JoinTypeText(j.type) \o <<" ","J","O","I","N"," ">>
                         \o escapeIdentifier(j.table)
                         \o (IF Truthy(j.alias)
                             THEN <<" ">> \o escapeIdentifier(j.alias[1]) ELSE <<>>)
                         \o <<" ","O","N"," ">> \o CondToSQL(j.on)
            ELSE <<>>
        whereClause ==
            IF subquery.where # None
            THEN <<" ","W","H","E","R","E"," ">> \o CondToSQL(subquery.where[1])
            ELSE <<>>
    IN  <<"(">> \o <<"S","E","L","E","C","T"," ">> \o selected
            \o <<" ","F","R","O","M"," ">> \o from \o alias
            \o joinClause \o whereClause \o <<")">>

\* ColumnBuilder.in(builder): the condition keeps the builder it was given,
\* not a copy of its fields.
inBuilder(columnName) ==
    [type |-> "membership", column |-> columnName, operator |-> "in",
     value |-> [vt |-> "builder"]]

\* The condition in(builder) together with the fields its builder has now.
Resolved(c, b) == [c EXCEPT !.value = [vt |-> "builder", b |-> b]]

\* The toSQL closure of the condition in(builder) returns: the builder is
\* converted when the text is asked for.
InBuilderToSQL(c, b) ==
    escapeIdentifier(c.column) \o <<" ","I","N"," ">> \o subqueryToSQL(toSubquery(b))

\* src/src/typed.ts: escapeQualifiedIdentifier
escapeQualifiedIdentifier(table, column) ==
    escapeIdentifier(table) \o <<".">> \o escapeIdentifier(column)

\* escapeIdentifier(subquery.select as string) in the template of the typed
\* in(): an array is turned into text by the regular expression test and by
\* the template, its items joined by commas, and has no replace method.
EscapeSelectAsString(selected) ==
    IF selected.vt = "string" THEN Value(escapeIdentifier(selected.s))
    ELSE LET joined == Join(selected.items, <<",">>)
         IN  IF \E i \in 1..Len(joined) :
                    ~(IsLower(joined[i]) \/ IsUpper(joined[i]) \/ IsDigit(joined[i])
                          \/ joined[i] = "_")
             THEN Threw("TypeError: identifier.replace is not a function")
             ELSE Value(joined)

\* The toSQL closure of the condition TypedColumnBuilder(table, col).in(builder).
TypedInBuilderToSQL(table, col, b) ==
    LET subquerySQL == toSubquery(b)
        selected == EscapeSelectAsString(subquerySQL.select)
    IN  IF ~selected.ok THEN [kind |-> "threw", err |-> selected.err]
        ELSE [kind |-> "sql",
              sql |-> escapeQualifiedIdentifier(table, col)
                          \o <<" ","I","N"," ","(","S","E","L","E","C","T"," ">> \o selected.v
                          \o <<" ","F","R","O","M"," ">> \o escapeIdentifier(subquerySQL.from)
                          \o <<")">>]

CondToSQL(c) ==
    CASE c.type = "comparison" -> ComparisonToSQL(c)
      [] c.type = "logical" -> LogicalToSQL(c)
      [] c.type = "membership" ->
            IF c.value.vt = "builder" THEN InBuilderToSQL(c, c.value.b)
            ELSE MembershipValuesToSQL(c)
      [] c.type = "helper" ->
            IF c.helperType = "isMemberOf" THEN IsMemberOfToSQL(c)
            ELSE <<"t","r","u","e">>

flattenConditionsNoRight(left, right, operator) ==
    LET leftConditions ==
            IF left.type = "logical" /\ left.operator = operator
            THEN left.conditions ELSE <<left>>
    IN  leftConditions \o <<right>>

flattenConditionsAnyOperator(left, right, operator) ==
    LET leftConditions ==
            IF left.type = "logical" THEN left.conditions ELSE <<left>>
        rightConditions ==
            IF right.type = "logical" THEN right.conditions ELSE <<right>>
    IN  leftConditions \o rightConditions

flattenConditions(left, right, operator) ==
    LET leftConditions ==
            IF left.type = "logical" /\ left.operator = operator
            THEN left.conditions ELSE <<left>>
        rightConditions ==
            IF right.type = "logical" /\ right.operator = operator
            THEN right.conditions ELSE <<right>>
    IN  leftConditions \o rightConditions

\* A variant that nests the two operands without flattening them.
chainWithNested(this, other, operator) ==
    LogicalCondition(operator, <<this, other>>)

\* this.chainWith(other, operator), on the conditions the two chains wrap.
chainWith(this, other, operator) ==
    LogicalCondition(operator, flattenConditions(this, other, operator))

and(this, other) == chainWith(this, other, "AND")
or(this, other) == chainWith(this, other, "OR")

-----------------------------------------------------------------------------
(* PolicyBuilder (src/unnamed/part_002).  Each method is an operator from  *)
(* the builder's state to the state after the call.                        *)

PolicyOperations == {"SELECT", "INSERT", "UPDATE", "DELETE", "ALL"}

OperationText(operation) ==
    CASE operation = "SELECT" -> <<"S","E","L","E","C","T">>
      [] operation = "INSERT" -> <<"I","N","S","E","R","T">>
      [] operation = "UPDATE" -> <<"U","P","D","A","T","E">>
      [] operation = "DELETE" -> <<"D","E","L","E","T","E">>
      [] operation = "ALL" -> <<"A","L","L">>


\* constructor(name?): the name is stored only when it is truthy.
NewPolicyBuilder(name) ==
    [name |-> IF Truthy(name) THEN name ELSE None,
     table |-> None, operation |-> None, role |-> None, type |-> None,
     using |-> None, withCheck |-> None, description |-> None]

on(s, table) == [s EXCEPT !.table = Some(table)]

for(s, operation) == [s EXCEPT !.operation = Some(operation)]

\* A variant of read() that selects the wrong operation.
readAsInsert(s) == for(s, "INSERT")
read(s) == for(s, "SELECT")
write(s) == for(s, "INSERT")
update(s) == for(s, "UPDATE")
delete(s) == for(s, "DELETE")
all(s) == for(s, "ALL")

to(s, role) == [s EXCEPT !.role = Some(role)]

when(s, condition) == [s EXCEPT !.using = Some(condition)]

withCheck(s, condition) == [s EXCEPT !.withCheck = Some(condition)]

This == [kind |-> "this"]
Thrown(msg) == [kind |-> "threw", err |-> msg]

\* A variant that writes both clauses whatever the operation.
allowBoth(s, condition) ==
    IF s.operation = None
    THEN [state |-> s,
          ret |-> Thrown("Must call .for(), .read(), .write(), .update(), .delete(), or .all() before .allow()")]
    ELSE [state |-> [s EXCEPT !.using = Some(condition), !.withCheck = Some(condition)],
          ret |-> This]

allow(s, condition) ==
    IF s.operation = None
    THEN [state |-> s,
          ret |-> Thrown("Must call .for(), .read(), .write(), .update(), .delete(), or .all() before .allow()")]
    ELSE LET operation == s.operation[1]
         IN  [state |->
                 IF operation \in {"SELECT", "DELETE"}
                 THEN [s EXCEPT !.using = Some(condition)]
                 ELSE IF operation = "INSERT"
                 THEN [s EXCEPT !.withCheck = Some(condition)]
                 ELSE IF operation \in {"UPDATE", "ALL"}
                 THEN [s EXCEPT !.using = Some(condition), !.withCheck = Some(condition)]
                 ELSE s,
              ret |-> This]

restrictive(s) == [s EXCEPT !.type = Some("RESTRICTIVE")]
\* A variant that leaves a type already set in place.
permissiveKeepsType(s) == IF s.type = None THEN [s EXCEPT !.type = Some("PERMISSIVE")] ELSE s
permissive(s) == [s EXCEPT !.type = Some("PERMISSIVE")]
requireAll(s) == restrictive(s)
allowAny(s) == permissive(s)

description(s, text) == [s EXCEPT !.description = Some(text)]

\* A variant that never marks the generated name as restrictive.
generatePolicyNameIgnoresType(s) ==
    s.table[1] \o <<"_">> \o ToLowerCase(OperationText(s.operation[1]))
        \o <<"_","p","o","l","i","c","y">>

\* generatePolicyName is reached from toDefinition only, after the table and
\* the operation were found set, so its two throws are never taken.
generatePolicyName(s) ==
    LET table == s.table[1]
        operation == ToLowerCase(OperationText(s.operation[1]))
        isRestrictive == s.type = Some("RESTRICTIVE")
    IN  IF isRestrictive
        THEN table \o <<"_">> \o operation
                \o <<"_","r","e","s","t","r","i","c","t","i","v","e","_","p","o","l","i","c","y">>
        ELSE table \o <<"_">> \o operation \o <<"_","p","o","l","i","c","y">>

\* A variant that does not require the table.
toDefinitionNoTableCheck(s) ==
    IF s.operation = None THEN Threw("Policy operation is required")
    ELSE LET table == IF s.table = None THEN <<>> ELSE s.table[1]
             rawName == IF Truthy(s.name) THEN s.name[1]
                        ELSE table \o <<"_">> \o ToLowerCase(OperationText(s.operation[1]))
                                \o <<"_","p","o","l","i","c","y">>
             name == sanitizePolicyName(rawName)
         IN  IF ~name.ok THEN name
             ELSE Value([name |-> name.v, table |-> table,
                         operation |-> s.operation[1], role |-> s.role,
                         type |-> IF s.type # None THEN s.type[1] ELSE "PERMISSIVE",
                         using |-> s.using, withCheck |-> s.withCheck,
                         description |-> s.description])

toDefinition(s) ==
    IF ~Truthy(s.table) THEN Threw("Policy table is required")
    ELSE IF s.operation = None THEN Threw("Policy operation is required")
    ELSE LET rawName == IF Truthy(s.name) THEN s.name[1] ELSE generatePolicyName(s)
             name == sanitizePolicyName(rawName)
         IN  IF ~name.ok THEN name
             ELSE Value([name |-> name.v, table |-> s.table[1],
                         operation |-> s.operation[1], role |-> s.role,
                         type |-> IF s.type # None THEN s.type[1] ELSE "PERMISSIVE",
                         using |-> s.using, withCheck |-> s.withCheck,
                         description |-> s.description])

\* A variant that pushes the role clause before the operation clause.
PolicyPartsRoleFirst(def) ==
    << <<"C","R","E","A","T","E"," ","P","O","L","I","C","Y"," ">> \o escapeIdentifier(def.name),
       <<"O","N"," ">> \o escapeIdentifier(def.table) >>
    \o (IF def.type = "RESTRICTIVE"
        THEN << <<"A","S"," ","R","E","S","T","R","I","C","T","I","V","E">> >> ELSE <<>>)
    \o (IF Truthy(def.role)
        THEN << <<"T","O"," ">> \o escapeIdentifier(def.role[1]) >> ELSE <<>>)
    \o << <<"F","O","R"," ">> \o OperationText(def.operation) >>
    \o (IF def.using # None
        THEN << <<"U","S","I","N","G"," ","(">> \o CondToSQL(def.using[1]) \o <<")">> >>
        ELSE <<>>)
    \o (IF def.withCheck # None
        THEN << <<"W","I","T","H"," ","C","H","E","C","K"," ","(">>
                    \o CondToSQL(def.withCheck[1]) \o <<")">> >>
        ELSE <<>>)

\* The parts array of toSQL for a definition def.
PolicyParts(def) ==
    << <<"C","R","E","A","T","E"," ","P","O","L","I","C","Y"," ">> \o escapeIdentifier(def.name),
       <<"O","N"," ">> \o escapeIdentifier(def.table) >>
    \o (IF def.type = "RESTRICTIVE"
        THEN << <<"A","S"," ","R","E","S","T","R","I","C","T","I","V","E">> >> ELSE <<>>)
    \o << <<"F","O","R"," ">> \o OperationText(def.operation) >>
    \o (IF Truthy(def.role)
        THEN << <<"T","O"," ">> \o escapeIdentifier(def.role[1]) >> ELSE <<>>)
    \o (IF def.using # None
        THEN << <<"U","S","I","N","G"," ","(">> \o CondToSQL(def.using[1]) \o <<")">> >>
        ELSE <<>>)
    \o (IF def.withCheck # None
        THEN << <<"W","I","T","H"," ","C","H","E","C","K"," ","(">>
                    \o CondToSQL(def.withCheck[1]) \o <<")">> >>
        ELSE <<>>)

\* toSQL() called without options: no index statements are requested.
toSQL(s) ==
    LET def == toDefinition(s)
    IN  IF ~def.ok THEN Thrown(def.err)
        ELSE [kind |-> "sql", sql |-> Join(PolicyParts(def.v), <<" ">>)]

-----------------------------------------------------------------------------
(* Index extraction (src/unnamed/part_002, lines 51-288 and 667-700).      *)
(* The Map of table names to Sets of column names is a sequence of         *)
(* entries in insertion order, the alias Map a sequence of entries with    *)
(* distinct keys.  The walk threads both through as one accumulator acc.   *)

isContextValue(value) == value.vt = "context"

\* aliasMap.get(key) || key
AliasGet(aliasMap, key) ==
    IF \E i \in 1..Len(aliasMap) : aliasMap[i].alias = key /\ aliasMap[i].table # <<>>
    THEN aliasMap[CHOOSE i \in 1..Len(aliasMap) : aliasMap[i].alias = key].table
    ELSE key

\* aliasMap.set(alias, tableName)
AliasSet(aliasMap, alias, tableName) ==
    IF \E i \in 1..Len(aliasMap) : aliasMap[i].alias = alias
    THEN [i \in 1..Len(aliasMap) |->
             IF aliasMap[i].alias = alias
             THEN [alias |-> alias, table |-> tableName] ELSE aliasMap[i]]
    ELSE Append(aliasMap, [alias |-> alias, table |-> tableName])

\* columnRef.split(".")[0]: the text before the first dot.
FirstPart(columnRef) ==
    SubSeq(columnRef, 1, (CHOOSE i \in 1..Len(columnRef) :
                             columnRef[i] = "." /\ \A k \in 1..(i - 1) : columnRef[k] # ".") - 1)

\* columnRef.split(".")[1]: the text between the first dot and the next one.
SecondPart(columnRef) ==
    LET first == CHOOSE i \in 1..Len(columnRef) :
                     columnRef[i] = "." /\ \A k \in 1..(i - 1) : columnRef[k] # "."
        rest == SubSeq(columnRef, first + 1, Len(columnRef))
    IN  IF IncludesDot(rest)
        THEN SubSeq(rest, 1, (CHOOSE i \in 1..Len(rest) :
                                 rest[i] = "." /\ \A k \in 1..(i - 1) : rest[k] # ".") - 1)
        ELSE rest

parseColumnReference(columnRef, currentTable, aliasMap) ==
    LET parts == IF IncludesDot(columnRef)
                 THEN <<FirstPart(columnRef), SecondPart(columnRef)>>
                 ELSE <<currentTable, columnRef>>
    IN  [table |-> AliasGet(aliasMap, parts[1]), column |-> parts[2]]

registerAlias(alias, tableName, aliasMap) ==
    IF Truthy(alias) THEN AliasSet(aliasMap, alias[1], tableName) ELSE aliasMap

\* The closure addColumn of extractIndexableColumns.
addColumn(acc, table, column) ==
    LET actualTable == AliasGet(acc.aliasToTable, table)
        tc == acc.tableColumns
    IN  [acc EXCEPT !.tableColumns =
            IF \E i \in 1..Len(tc) : tc[i].table = actualTable
            THEN [i \in 1..Len(tc) |->
                     IF tc[i].table = actualTable
                           /\ \A k \in 1..Len(tc[i].columns) : tc[i].columns[k] # column
                     THEN [tc[i] EXCEPT !.columns = Append(@, column)]
                     ELSE tc[i]]
            ELSE Append(tc, [table |-> actualTable, columns |-> <<column>>])]

\* Of the values of the model only a context value is an object with a
\* toSQL function.
processComparisonCondition(comp, currentTable, acc) ==
    IF comp.operator # "eq" THEN acc
    ELSE LET ref == parseColumnReference(comp.column, currentTable, acc.aliasToTable)
             shouldIndex == isContextValue(comp.value)
         IN  IF shouldIndex THEN addColumn(acc, ref.table, ref.column)
             ELSE IF comp.value.vt = "string" /\ IncludesDot(comp.value.s)
             THEN LET rightSide == parseColumnReference(comp.value.s, currentTable,
                                                        acc.aliasToTable)
                  IN  addColumn(addColumn(acc, ref.table, ref.column),
                                rightSide.table, rightSide.column)
             ELSE acc

processHelperCondition(helper, currentTable, acc) ==
    IF helper.helperType = "isMemberOf"
    THEN LET localKey == helper.params.localKey
             localKeyParts == IF IncludesDot(localKey)
                              THEN <<FirstPart(localKey), SecondPart(localKey)>>
                              ELSE <<currentTable, localKey>>
             joinTable == helper.params.joinTable
             foreignKey == helper.params.foreignKey
         IN  addColumn(addColumn(addColumn(acc, localKeyParts[1], localKeyParts[2]),
                                 joinTable, foreignKey),
                       joinTable, <<"u","s","e","r","_","i","d">>)
    ELSE acc

RECURSIVE processCondition(_, _, _)

processSubqueryJoin(subquery, mainTableAlias, acc) ==
    IF subquery.join = None THEN acc
    ELSE LET j == subquery.join[1]
             joinTableAlias == IF Truthy(j.alias) THEN j.alias[1] ELSE j.table
             registered == [acc EXCEPT !.aliasToTable = registerAlias(j.alias, j.table, @)]
         IN  processCondition(j.on, joinTableAlias,
                              processCondition(j.on, mainTableAlias, registered))

processSubqueryForIndexing(subquery, acc) ==
    LET mainTableAlias == IF Truthy(subquery.alias) THEN subquery.alias[1] ELSE subquery.from
        registered == [acc EXCEPT !.aliasToTable =
                          registerAlias(subquery.alias, subquery.from, @)]
        joined == processSubqueryJoin(subquery, mainTableAlias, registered)
    IN  IF subquery.where # None
        THEN processCondition(subquery.where[1], mainTableAlias, joined)
        ELSE joined

processMembershipCondition(membership, currentTable, acc) ==
    IF membership.operator # "in" THEN acc
    ELSE LET ref == parseColumnReference(membership.column, currentTable, acc.aliasToTable)
             added == addColumn(acc, ref.table, ref.column)
         IN  IF membership.value.vt = "builder"
             THEN processSubqueryForIndexing(toSubquery(membership.value.b), added)
             ELSE added

\* conditions.forEach((c) => processCondition(c, currentTable)) from index k on.
RECURSIVE processEach(_, _, _, _)
processEach(conditions, k, currentTable, acc) ==
    IF k > Len(conditions) THEN acc
    ELSE processEach(conditions, k + 1, currentTable,
                     processCondition(conditions[k], currentTable, acc))

processCondition(cond, currentTable, acc) ==
    CASE cond.type = "comparison" -> processComparisonCondition(cond, currentTable, acc)
      [] cond.type = "membership" -> processMembershipCondition(cond, currentTable, acc)
      [] cond.type = "logical" -> processEach(cond.conditions, 1, currentTable, acc)
      [] cond.type = "helper" -> processHelperCondition(cond, currentTable, acc)

\* condition is undefined (None) or a condition (Some).
extractIndexableColumns(condition, tableName) ==
    IF condition = None THEN <<>>
    ELSE processCondition(condition[1], tableName,
                          [tableColumns |-> <<>>, aliasToTable |-> <<>>]).tableColumns

\* The statement generateIndexSQL pushes for one column of one table.
IndexStatement(tableName, columnName) ==
    <<"C","R","E","A","T","E"," ","I","N","D","E","X"," ","I","F"," ",
      "N","O","T"," ","E","X","I","S","T","S"," ">>
        \o escapeIdentifier(<<"i","d","x","_">> \o tableName \o <<"_">> \o columnName)
        \o <<" ","O","N"," ">> \o escapeIdentifier(tableName)
        \o <<" ","(">> \o escapeIdentifier(columnName) \o <<")",";">>

generateIndexSQL(tableColumns) ==
    Concat([t \in 1..Len(tableColumns) |->
               [k \in 1..Len(tableColumns[t].columns) |->
                   IndexStatement(tableColumns[t].table, tableColumns[t].columns[k])]])

\* A variant that appends the extracted entries without looking for the
\* table or the column among those already there.
MergeColumnsAppending(tableColumns, extracted, t, k) == tableColumns \o extracted

\* usingColumns.forEach / checkColumns.forEach: the columns of extracted
\* added to tableColumns, entry by entry from entry t on.
RECURSIVE MergeColumns(_, _, _, _)
MergeColumns(tableColumns, extracted, t, k) ==
    IF t > Len(extracted) THEN tableColumns
    ELSE IF k > Len(extracted[t].columns)
    THEN MergeColumns(tableColumns, extracted, t + 1, 1)
    ELSE MergeColumns(
             addColumn([tableColumns |-> tableColumns, aliasToTable |-> <<>>],
                       extracted[t].table, extracted[t].columns[k]).tableColumns,
             extracted, t, k + 1)

\* The merged Map that toSQL builds when indexes are requested.
PolicyIndexColumns(def) ==
    MergeColumns(MergeColumns(<<>>, extractIndexableColumns(def.using, def.table), 1, 1),
                 extractIndexableColumns(def.withCheck, def.table), 1, 1)

\* toSQL(options): options is undefined (None) or an object (Some).
toSQLOptions(s, options) ==
    LET def == toDefinition(s)
    IN  IF ~def.ok THEN Thrown(def.err)
        ELSE LET policySQL == Join(PolicyParts(def.v), <<" ">>)
                 tableColumns == PolicyIndexColumns(def.v)
             IN  IF options # None /\ options[1].includeIndexes /\ Len(tableColumns) > 0
                 THEN [kind |-> "sql",
                       sql |-> policySQL \o <<";","\n","\n">>
                                   \o Join(generateIndexSQL(tableColumns), <<"\n">>)]
                 ELSE [kind |-> "sql", sql |-> policySQL]

-----------------------------------------------------------------------------
(* The policy builder driven by arbitrary call sequences.  Every call on   *)
(* the builder is mirrored on the twin with the RLS-focused method of the  *)
(* README table: read/write/update/delete/all become for(...), requireAll  *)
(* and allowAny become restrictive and permissive.                         *)

Names == {None, Some(<<>>), Some(<<"M","y"," ","P","o","l","i","c","y">>)}
Tables == {<<"d","o","c","s">>, <<"M","y","-","D","o","c","s">>}
Roles == {<<"a","d","m","i","n">>}
Descriptions == {<<"n","o","t","e">>}
Conditions ==
    {eq(<<"u","s","e","r","_","i","d">>, AuthUid),
     eq(<<"i","s","_","p","u","b","l","i","c">>, BooleanValue(TRUE))}

ChainVars == <<chains>>
SubqueryVars == <<sb, mem, sbLast, sbRet>>
TextVars == <<input, otherName, out>>

TextIdle ==
    /\ input = <<>>
    /\ otherName = <<>>
    /\ out = [f |-> "none"]

CallOn == \E t \in Tables :
    /\ state' = on(state, t)
    /\ rls' = on(rls, t)
    /\ ret' = This /\ retRls' = This
    /\ last' = [m |-> "on", arg |-> t]
    /\ UNCHANGED <<nameArg, typeCall, ChainVars, SubqueryVars, TextVars>>

CallFor == \E o \in PolicyOperations :
    /\ state' = for(state, o)
    /\ rls' = for(rls, o)
    /\ ret' = This /\ retRls' = This
    /\ last' = [m |-> "for", arg |-> o]
    /\ UNCHANGED <<nameArg, typeCall, ChainVars, SubqueryVars, TextVars>>

CallRead ==
    /\ state' = read(state)
    /\ rls' = for(rls, "SELECT")
    /\ ret' = This /\ retRls' = This
    /\ last' = [m |-> "read", arg |-> None]
    /\ UNCHANGED <<nameArg, typeCall, ChainVars, SubqueryVars, TextVars>>

CallWrite ==
    /\ state' = write(state)
    /\ rls' = for(rls, "INSERT")
    /\ ret' = This /\ retRls' = This
    /\ last' = [m |-> "write", arg |-> None]
    /\ UNCHANGED <<nameArg, typeCall, ChainVars, SubqueryVars, TextVars>>

CallUpdate ==
    /\ state' = update(state)
    /\ rls' = for(rls, "UPDATE")
    /\ ret' = This /\ retRls' = This
    /\ last' = [m |-> "update", arg |-> None]
    /\ UNCHANGED <<nameArg, typeCall, ChainVars, SubqueryVars, TextVars>>

CallDelete ==
    /\ state' = delete(state)
    /\ rls' = for(rls, "DELETE")
    /\ ret' = This /\ retRls' = This
    /\ last' = [m |-> "delete", arg |-> None]
    /\ UNCHANGED <<nameArg, typeCall, ChainVars, SubqueryVars, TextVars>>

CallAll ==
    /\ state' = all(state)
    /\ rls' = for(rls, "ALL")
    /\ ret' = This /\ retRls' = This
    /\ last' = [m |-> "all", arg |-> None]
    /\ UNCHANGED <<nameArg, typeCall, ChainVars, SubqueryVars, TextVars>>

CallTo == \E r \in Roles :
    /\ state' = to(state, r)
    /\ rls' = to(rls, r)
    /\ ret' = This /\ retRls' = This
    /\ last' = [m |-> "to", arg |-> r]
    /\ UNCHANGED <<nameArg, typeCall, ChainVars, SubqueryVars, TextVars>>

CallWhen == \E c \in Conditions :
    /\ state' = when(state, c)
    /\ rls' = when(rls, c)
    /\ ret' = This /\ retRls' = This
    /\ last' = [m |-> "when", arg |-> c]
    /\ UNCHANGED <<nameArg, typeCall, ChainVars, SubqueryVars, TextVars>>

CallWithCheck == \E c \in Conditions :
    /\ state' = withCheck(state, c)
    /\ rls' = withCheck(rls, c)
    /\ ret' = This /\ retRls' = This
    /\ last' = [m |-> "withCheck", arg |-> c]
    /\ UNCHANGED <<nameArg, typeCall, ChainVars, SubqueryVars, TextVars>>

CallAllow == \E c \in Conditions :
    /\ state' = allow(state, c).state
    /\ rls' = allow(rls, c).state
    /\ ret' = allow(state, c).ret /\ retRls' = allow(rls, c).ret
    /\ last' = [m |-> "allow", arg |-> c]
    /\ UNCHANGED <<nameArg, typeCall, ChainVars, SubqueryVars, TextVars>>

CallRestrictive ==
    /\ state' = restrictive(state)
    /\ rls' = restrictive(rls)
    /\ ret' = This /\ retRls' = This
    /\ last' = [m |-> "restrictive", arg |-> None]
    /\ typeCall' = "restrictive"
    /\ UNCHANGED <<nameArg, ChainVars, SubqueryVars, TextVars>>

CallPermissive ==
    /\ state' = permissive(state)
    /\ rls' = permissive(rls)
    /\ ret' = This /\ retRls' = This
    /\ last' = [m |-> "permissive", arg |-> None]
    /\ typeCall' = "permissive"
    /\ UNCHANGED <<nameArg, ChainVars, SubqueryVars, TextVars>>

CallRequireAll ==
    /\ state' = requireAll(state)
    /\ rls' = restrictive(rls)
    /\ ret' = This /\ retRls' = This
    /\ last' = [m |-> "requireAll", arg |-> None]
    /\ typeCall' = "requireAll"
    /\ UNCHANGED <<nameArg, ChainVars, SubqueryVars, TextVars>>

CallAllowAny ==
    /\ state' = allowAny(state)
    /\ rls' = permissive(rls)
    /\ ret' = This /\ retRls' = This
    /\ last' = [m |-> "allowAny", arg |-> None]
    /\ typeCall' = "allowAny"
    /\ UNCHANGED <<nameArg, ChainVars, SubqueryVars, TextVars>>

CallDescription == \E d \in Descriptions :
    /\ state' = description(state, d)
    /\ rls' = description(rls, d)
    /\ ret' = This /\ retRls' = This
    /\ last' = [m |-> "description", arg |-> d]
    /\ UNCHANGED <<nameArg, typeCall, ChainVars, SubqueryVars, TextVars>>

\* What a toDefinition() call hands to its caller.
DefinitionResult(s) ==
    LET d == toDefinition(s)
    IN  IF d.ok THEN [kind |-> "definition", def |-> d.v] ELSE Thrown(d.err)

CallToDefinition ==
    /\ ret' = DefinitionResult(state) /\ retRls' = DefinitionResult(rls)
    /\ last' = [m |-> "toDefinition", arg |-> None]
    /\ UNCHANGED <<state, rls, nameArg, typeCall, ChainVars, SubqueryVars, TextVars>>

\* A variant in which rendering consumes the USING condition of the builder.
CallToSQLConsuming ==
    /\ ret' = toSQL(state) /\ retRls' = toSQL(rls)
    /\ state' = [state EXCEPT !.using = None]
    /\ rls' = [rls EXCEPT !.using = None]
    /\ last' = [m |-> "toSQL", arg |-> None]
    /\ UNCHANGED <<nameArg, typeCall, ChainVars, SubqueryVars, TextVars>>

CallToSQL ==
    /\ ret' = toSQL(state) /\ retRls' = toSQL(rls)
    /\ last' = [m |-> "toSQL", arg |-> None]
    /\ UNCHANGED <<state, rls, nameArg, typeCall, ChainVars, SubqueryVars, TextVars>>

InitOther ==
    /\ chains = <<>>
    /\ sb = None
    /\ mem = None
    /\ sbLast = None
    /\ sbRet = None
    /\ TextIdle

Init ==
    /\ nameArg \in Names
    /\ state = NewPolicyBuilder(nameArg)
    /\ rls = NewPolicyBuilder(nameArg)
    /\ last = [m |-> "policy", arg |-> nameArg]
    /\ ret = This
    /\ retRls = This
    /\ typeCall = "none"
    /\ InitOther

Next ==
    \/ CallOn \/ CallFor \/ CallRead \/ CallWrite \/ CallUpdate \/ CallDelete \/ CallAll
    \/ CallTo \/ CallWhen \/ CallWithCheck \/ CallAllow
    \/ CallRestrictive \/ CallPermissive \/ CallRequireAll \/ CallAllowAny
    \/ CallDescription \/ CallToDefinition \/ CallToSQL

Spec == Init /\ [][Next]_vars

\* The call sequences that set conditions through allow() only.
NextAllow ==
    \/ CallOn \/ CallFor \/ CallRead \/ CallWrite \/ CallUpdate \/ CallDelete \/ CallAll
    \/ CallAllow \/ CallToSQL

SpecAllow == Init /\ [][NextAllow]_vars

-----------------------------------------------------------------------------
(* Condition chains composed by arbitrary and()/or() calls.  chains is the *)
(* heap of ConditionChain objects: each entry holds the condition the      *)
(* chain wraps and the call that constructed it (by, and for and/or the    *)
(* heap positions of the receiver and of the argument).                    *)

MaxChains == 5

ColumnChain(columnName, value) ==
    [cond |-> eq(columnName, value), by |-> "eq", this |-> 0, other |-> 0]

PolicyIdle ==
    /\ nameArg = None
    /\ state = NewPolicyBuilder(None)
    /\ rls = NewPolicyBuilder(None)
    /\ last = [m |-> "policy", arg |-> None]
    /\ ret = This
    /\ retRls = This
    /\ typeCall = "none"

PolicyVars == <<nameArg, state, rls, last, ret, retRls, typeCall>>

InitChain ==
    /\ chains = <<ColumnChain(<<"a">>, NumberValue(1)),
                  ColumnChain(<<"b">>, BooleanValue(TRUE)),
                  ColumnChain(<<"c">>, AuthUid)>>
    /\ PolicyIdle
    /\ sb = None /\ mem = None /\ sbLast = None /\ sbRet = None
    /\ TextIdle

\* A variant of and() that also stores the new condition in the chain it
\* was called on.
ChainAndInPlace == \E i, j \in 1..Len(chains) :
    /\ Len(chains) < MaxChains
    /\ chains' = Append([chains EXCEPT ![i].cond = and(chains[i].cond, chains[j].cond)],
                        [cond |-> and(chains[i].cond, chains[j].cond),
                         by |-> "AND", this |-> i, other |-> j])
    /\ UNCHANGED <<PolicyVars, SubqueryVars, TextVars>>

ChainAnd == \E i, j \in 1..Len(chains) :
    /\ Len(chains) < MaxChains
    /\ chains' = Append(chains, [cond |-> and(chains[i].cond, chains[j].cond),
                                 by |-> "AND", this |-> i, other |-> j])
    /\ UNCHANGED <<PolicyVars, SubqueryVars, TextVars>>

ChainOr == \E i, j \in 1..Len(chains) :
    /\ Len(chains) < MaxChains
    /\ chains' = Append(chains, [cond |-> or(chains[i].cond, chains[j].cond),
                                 by |-> "OR", this |-> i, other |-> j])
    /\ UNCHANGED <<PolicyVars, SubqueryVars, TextVars>>

NextChain == ChainAnd \/ ChainOr

SpecChain == InitChain /\ [][NextChain]_vars

-----------------------------------------------------------------------------
(* SubqueryBuilder (src/src/subquery-builder.ts).  The two functions it    *)
(* imports from ./validation are modelled from the description of the      *)
(* reference validator: the available tables are the alias-or-name of the  *)
(* from table and of every join added so far, and the missing tables are   *)
(* the qualifiers of the qualified column references of the condition that *)
(* are not available, the references being those of every Comparison,      *)
(* Membership and Helper node of the tree, Logical nodes walked.            *)

MaxJoins == 2

\* The column references of a condition, in the order they appear.
RECURSIVE ColumnReferences(_)
ColumnReferences(c) ==
    CASE c.type = "comparison" -> <<c.column>>
      [] c.type = "membership" -> <<c.column>>
      [] c.type = "logical" ->
            Concat([k \in 1..Len(c.conditions) |-> ColumnReferences(c.conditions[k])])
      [] c.type = "helper" ->
            IF c.helperType = "isMemberOf" THEN <<c.params.localKey>> ELSE <<>>

\* The text before the first dot of a qualified column reference.
Qualifier(columnRef) ==
    SubSeq(columnRef, 1, (CHOOSE i \in 1..Len(columnRef) :
                             columnRef[i] = "." /\ \A k \in 1..(i - 1) : columnRef[k] # ".") - 1)

AliasOrName(table, alias) == IF Truthy(alias) THEN alias[1] ELSE table

getAvailableTables(from, fromAlias, joins) ==
    {AliasOrName(from, fromAlias)}
        \cup {AliasOrName(joins[k].table, joins[k].alias) : k \in 1..Len(joins)}

\* The unavailable qualifiers, each once, in the order of first appearance.
detectMissingJoins(condition, availableTables) ==
    LET refs == ColumnReferences(condition)
        keep == {i \in 1..Len(refs) :
                    /\ IncludesDot(refs[i])
                    /\ Qualifier(refs[i]) \notin availableTables
                    /\ \A k \in 1..(i - 1) :
                          ~(IncludesDot(refs[k]) /\ Qualifier(refs[k]) = Qualifier(refs[i]))}
    IN  [k \in 1..Cardinality(keep) |->
            Qualifier(refs[CHOOSE i \in keep : Cardinality({j \in keep : j < i}) = k - 1])]

JoinConditionPrefix ==
    <<"J","o","i","n"," ","c","o","n","d","i","t","i","o","n"," ","r","e","f","e","r","e","n","c","e","s"," ","u","n","a","v","a","i","l","a","b","l","e"," ","t","a","b","l","e","(","s",")",":"," ">>
MissingJoinPrefix ==
    <<"M","i","s","s","i","n","g"," ","j","o","i","n","(","s",")"," ","f","o","r"," ","t","a","b","l","e","(","s",")",":"," ">>
MissingJoinAdvice(table) ==
    <<"."," ","A","d","d"," ","a"," ","j","o","i","n"," ","u","s","i","n","g"," ",".","j","o","i","n","(","'">>
        \o table \o <<"'",","," ",".",".",".",")"," ","b","e","f","o","r","e"," ","c","a","l","l","i","n","g"," ",".","w","h","e","r","e","(",")">>

CommaSpace == <<",", " ">>

\* A variant that ignores the table the caller allows to be missing.
validateTableReferencesNoneAllowed(condition, from, fromAlias, joins, allowedMissing) ==
    LET missing == detectMissingJoins(condition, getAvailableTables(from, fromAlias, joins))
    IN  IF missing = <<>> THEN This
        ELSE IF Truthy(allowedMissing)
             THEN Thrown(JoinConditionPrefix \o Join(missing, CommaSpace))
             ELSE Thrown(MissingJoinPrefix \o Join(missing, CommaSpace)
                             \o MissingJoinAdvice(missing[1]))

\* A variant that validates a condition only when it is a comparison.
validateTableReferencesTopLevel(condition, from, fromAlias, joins, allowedMissing) ==
    LET missing ==
            IF condition.type = "comparison"
            THEN detectMissingJoins(condition, getAvailableTables(from, fromAlias, joins))
            ELSE <<>>
        filteredMissing ==
            IF Truthy(allowedMissing)
            THEN SelectSeq(missing, LAMBDA t : t # allowedMissing[1])
            ELSE missing
    IN  IF Len(filteredMissing) > 0
        THEN IF Truthy(allowedMissing)
             THEN Thrown(JoinConditionPrefix \o Join(filteredMissing, CommaSpace))
             ELSE Thrown(MissingJoinPrefix \o Join(filteredMissing, CommaSpace)
                             \o MissingJoinAdvice(filteredMissing[1]))
        ELSE This

\* validateTableReferences: This when it returns, Thrown(message) when it throws.
validateTableReferences(condition, from, fromAlias, joins, allowedMissing) ==
    LET availableTables == getAvailableTables(from, fromAlias, joins)
        missing == detectMissingJoins(condition, availableTables)
        filteredMissing ==
            IF Truthy(allowedMissing)
            THEN SelectSeq(missing, LAMBDA t : t # allowedMissing[1])
            ELSE missing
    IN  IF Len(missing) > 0 /\ Len(filteredMissing) > 0
        THEN IF Truthy(allowedMissing)
             THEN Thrown(JoinConditionPrefix \o Join(filteredMissing, CommaSpace))
             ELSE Thrown(MissingJoinPrefix \o Join(filteredMissing, CommaSpace)
                             \o MissingJoinAdvice(filteredMissing[1]))
        ELSE This

\* constructor(from, alias?)
NewSubqueryBuilder(table, alias) ==
    [from |-> table, fromAlias |-> alias, select |-> StringValue(<<"*">>),
     where |-> None, joins |-> <<>>]

\* select(columns): a string or an array of strings.
select(b, columns) == [b EXCEPT !.select = columns]

\* A variant that stores the condition without validating it.
whereUnchecked(b, condition) ==
    [sb |-> [b EXCEPT !.where = Some(condition)], ret |-> This]

\* where(condition): the builder after the call and what the call returned.
where(b, condition) ==
    LET v == validateTableReferences(condition, b.from, b.fromAlias, b.joins, None)
    IN  IF v.kind = "threw" THEN [sb |-> b, ret |-> v]
        ELSE [sb |-> [b EXCEPT !.where = Some(condition)], ret |-> This]

\* A variant that pushes the join before it validates the ON condition.
joinPushFirst(b, table, onCondition, type, alias) ==
    LET v == validateTableReferences(onCondition, b.from, b.fromAlias, b.joins,
                                     Some(AliasOrName(table, alias)))
    IN  [sb |-> [b EXCEPT !.joins =
                    Append(@, [table |-> table, alias |-> alias, on |-> onCondition,
                               type |-> IF type # None THEN type[1] ELSE "inner"])],
         ret |-> IF v.kind = "threw" THEN v ELSE This]

\* join(table, on, type?, alias?)
join(b, table, onCondition, type, alias) ==
    LET v == validateTableReferences(onCondition, b.from, b.fromAlias, b.joins,
                                     Some(AliasOrName(table, alias)))
    IN  IF v.kind = "threw" THEN [sb |-> b, ret |-> v]
        ELSE [sb |-> [b EXCEPT !.joins =
                         Append(@, [table |-> table, alias |-> alias, on |-> onCondition,
                                    type |-> IF type # None THEN type[1] ELSE "inner"])],
              ret |-> This]

SubqueryFrom == <<"p","r","o","j","e","c","t","s">>
SubqueryAliases == {None, Some(<<"p">>)}

JoinTargets ==
    {[table |-> <<"m","e","m","b","e","r","s">>, alias |-> Some(<<"m">>), type |-> Some("left")],
     [table |-> <<"o","t","h","e","r">>, alias |-> None, type |-> None]}

SubqueryConditions ==
    {eq(<<"u","s","e","r","_","i","d">>, AuthUid),
     eq(<<"m",".","u","s","e","r","_","i","d">>, AuthUid),
     eq(<<"m","e","m","b","e","r","s",".","u","s","e","r","_","i","d">>, AuthUid),
     and(eq(<<"p",".","i","d">>, NumberValue(1)),
         eq(<<"o","t","h","e","r",".","u","s","e","r","_","i","d">>, AuthUid)),
     or(eq(<<"m",".","p","r","o","j","e","c","t","_","i","d">>, NumberValue(1)),
        eq(<<"p","r","o","j","e","c","t","s",".","i","d">>, NumberValue(1))),
     and(eq(<<"u","s","e","r","_","i","d">>, AuthUid),
         or(eq(<<"p",".","i","d">>, NumberValue(1)),
            eq(<<"o","t","h","e","r",".","u","s","e","r","_","i","d">>, AuthUid))),
     or(inValues(<<"o","t","h","e","r",".","i","d">>, <<NumberValue(1), NumberValue(2)>>),
        eq(<<"u","s","e","r","_","i","d">>, AuthUid)),
     isMemberOf(<<"m","e","m","b","e","r","s">>,
                <<"p","r","o","j","e","c","t","_","i","d">>,
                <<"m",".","i","d">>)}

\* The conditions join() is called with.
JoinConditions ==
    {eq(<<"m",".","u","s","e","r","_","i","d">>, AuthUid),
     eq(<<"m","e","m","b","e","r","s",".","u","s","e","r","_","i","d">>, AuthUid),
     and(eq(<<"u","s","e","r","_","i","d">>, AuthUid),
         or(eq(<<"p",".","i","d">>, NumberValue(1)),
            eq(<<"o","t","h","e","r",".","u","s","e","r","_","i","d">>, AuthUid))),
     or(inValues(<<"o","t","h","e","r",".","i","d">>, <<NumberValue(1), NumberValue(2)>>),
        eq(<<"u","s","e","r","_","i","d">>, AuthUid))}

SelectColumns ==
    {[vt |-> "array", items |-> <<<<"p",".","i","d">>, <<"n","a","m","e">>>>]}

InitSub ==
    /\ \E a \in SubqueryAliases : sb = NewSubqueryBuilder(SubqueryFrom, a)
    /\ mem = None
    /\ sbLast = [m |-> "from"]
    /\ sbRet = This
    /\ chains = <<>>
    /\ PolicyIdle
    /\ TextIdle

CallSelect == \E columns \in SelectColumns :
    /\ sb' = select(sb, columns)
    /\ sbRet' = This
    /\ sbLast' = [m |-> "select", columns |-> columns]
    /\ UNCHANGED <<mem, PolicyVars, ChainVars, TextVars>>

CallWhere == \E c \in SubqueryConditions :
    /\ LET r == where(sb, c)
       IN  sb' = r.sb /\ sbRet' = r.ret
    /\ sbLast' = [m |-> "where", condition |-> c]
    /\ UNCHANGED <<mem, PolicyVars, ChainVars, TextVars>>

CallJoin == \E t \in JoinTargets, c \in JoinConditions :
    /\ Len(sb.joins) < MaxJoins
    /\ LET r == join(sb, t.table, c, t.type, t.alias)
       IN  sb' = r.sb /\ sbRet' = r.ret
    /\ sbLast' = [m |-> "join", table |-> t.table, on |-> c, type |-> t.type,
                  alias |-> t.alias]
    /\ UNCHANGED <<mem, PolicyVars, ChainVars, TextVars>>

\* column("id").in(sb)
CallIn ==
    /\ mem = None
    /\ mem' = Some(inBuilder(<<"i","d">>))
    /\ sbRet' = This
    /\ sbLast' = [m |-> "in"]
    /\ UNCHANGED <<sb, PolicyVars, ChainVars, TextVars>>

\* toSQL() of the membership condition.
CallMembershipToSQL ==
    /\ mem # None
    /\ sbRet' = [kind |-> "sql", sql |-> InBuilderToSQL(mem[1], sb)]
    /\ sbLast' = [m |-> "toSQL"]
    /\ UNCHANGED <<sb, mem, PolicyVars, ChainVars, TextVars>>

\* toSQL() of the condition that in(sb) of a typed column builder returns.
CallTypedMembershipToSQL ==
    /\ sbRet' = TypedInBuilderToSQL(<<"d","o","c","s">>, <<"i","d">>, sb)
    /\ sbLast' = [m |-> "typedToSQL"]
    /\ UNCHANGED <<sb, mem, PolicyVars, ChainVars, TextVars>>

NextSub ==
    \/ CallSelect \/ CallWhere \/ CallJoin \/ CallIn \/ CallMembershipToSQL
    \/ CallTypedMembershipToSQL

SpecSub == InitSub /\ [][NextSub]_vars

-----------------------------------------------------------------------------
(* The functions of src/src/sql.ts applied to texts: every text of at most *)
(* MaxText characters of TextAlphabet, and names longer than the longest   *)
(* PostgreSQL identifier, made of a run of one letter and a short ending.  *)

MaxText == 3

TextAlphabet == {"a", "A", "1", "_", "\"", "'", " "}

ShortTexts == UNION {[1..k -> TextAlphabet] : k \in 0..MaxText}

Filler == [k \in 1..(POSTGRES_MAX_IDENTIFIER_LENGTH - 1) |-> "a"]

\* A name of 64 characters with an underscore where a base of 56 characters
\* ends.
UnderscoreAtCut ==
    SubSeq(Filler, 1, POSTGRES_MAX_IDENTIFIER_LENGTH - 8) \o <<"_">> \o SubSeq(Filler, 1, 8)

LongNames ==
    {Filler \o <<"A","a">>, Filler \o <<"B","B">>,
     Filler \o <<"_","_">>, Filler \o <<" ","1">>, UnderscoreAtCut}

InitText ==
    /\ input \in ShortTexts \cup LongNames
    /\ otherName \in LongNames
    /\ out = [f |-> "none"]
    /\ PolicyIdle
    /\ chains = <<>>
    /\ sb = None /\ mem = None /\ sbLast = None /\ sbRet = None

CallEscapeIdentifier ==
    /\ out' = [f |-> "escapeIdentifier", res |-> escapeIdentifier(input)]
    /\ UNCHANGED <<input, otherName, PolicyVars, ChainVars, SubqueryVars>>

CallEscapeValue ==
    /\ out' = [f |-> "escapeValue", res |-> escapeValue(StringValue(input))]
    /\ UNCHANGED <<input, otherName, PolicyVars, ChainVars, SubqueryVars>>

CallSanitizePolicyName ==
    /\ out' = [f |-> "sanitizePolicyName", res |-> sanitizePolicyName(input)]
    /\ UNCHANGED <<input, otherName, PolicyVars, ChainVars, SubqueryVars>>

\* session.get(input, type).toSQL()
CallSessionGet == \E type \in SessionVariableTypes :
    /\ out' = [f |-> "session.get", type |-> type,
               res |-> ContextToSQL(SessionGet(input, type))]
    /\ UNCHANGED <<input, otherName, PolicyVars, ChainVars, SubqueryVars>>

NextText ==
    \/ CallEscapeIdentifier \/ CallEscapeValue \/ CallSanitizePolicyName
    \/ CallSessionGet

SpecText == InitText /\ [][NextText]_vars

-----------------------------------------------------------------------------
(* toSQL with index generation, on policies whose clauses are set by       *)
(* when and withCheck from conditions of every node type.                  *)

\* from("projects", "p").join("members", m.user_id = auth.uid(), "left", "m")
\*     .where(p.owner_id = auth.uid())
IndexBuilder ==
    where(join(NewSubqueryBuilder(SubqueryFrom, Some(<<"p">>)),
               <<"m","e","m","b","e","r","s">>,
               eq(<<"m",".","u","s","e","r","_","i","d">>, AuthUid),
               Some("left"), Some(<<"m">>)).sb,
          eq(<<"p",".","o","w","n","e","r","_","i","d">>, AuthUid)).sb

\* The same builder with a second join, of teams as t, and a WHERE
\* condition on a column of t.
IndexBuilderTwoJoins ==
    where(join(join(NewSubqueryBuilder(SubqueryFrom, Some(<<"p">>)),
                    <<"m","e","m","b","e","r","s">>,
                    eq(<<"m",".","u","s","e","r","_","i","d">>, AuthUid),
                    Some("left"), Some(<<"m">>)).sb,
               <<"t","e","a","m","s">>,
               eq(<<"t",".","l","e","a","d","_","i","d">>, AuthUid),
               None, Some(<<"t">>)).sb,
          eq(<<"t",".","o","w","n","e","r","_","i","d">>, AuthUid)).sb

IndexConditions ==
    {eq(<<"u","s","e","r","_","i","d">>, AuthUid),
     eq(<<"s","t","a","t","u","s">>, StringValue(<<"a","c","t","i","v","e">>)),
     eq(<<"s","t","a","t","u","s">>, StringValue(<<"v","1",".","0">>)),
     eq(<<"r","a","n","k">>, NumberValue(1)),
     createComparison(<<"o","w","n","e","r","_","i","d">>, "neq", AuthUid),
     and(eq(<<"u","s","e","r","_","i","d">>, AuthUid),
         eq(<<"s","t","a","t","u","s">>, StringValue(<<"a","c","t","i","v","e">>))),
     or(eq(<<"i","s","_","p","u","b","l","i","c">>, BooleanValue(TRUE)),
        and(eq(<<"d","o","c","s",".","u","s","e","r","_","i","d">>, AuthUid),
            eq(<<"t","e","a","m">>, NullValue))),
     or(eq(<<"u","s","e","r","_","i","d">>, AuthUid),
        and(eq(<<"d","o","c","s",".","u","s","e","r","_","i","d">>, AuthUid),
            eq(<<"r","a","n","k">>, NumberValue(1)))),
     inValues(<<"k","i","n","d">>, <<StringValue(<<"a">>), StringValue(<<"b">>)>>),
     isMemberOf(<<"m","e","m","b","e","r","s">>,
                <<"p","r","o","j","e","c","t","_","i","d">>, <<"i","d">>),
     Resolved(inBuilder(<<"p","r","o","j","e","c","t","_","i","d">>), IndexBuilder),
     Resolved(inBuilder(<<"p","r","o","j","e","c","t","_","i","d">>), IndexBuilderTwoJoins)}

SQLGenerationOptions ==
    {None, Some([includeIndexes |-> FALSE]), Some([includeIndexes |-> TRUE])}

InitIndex ==
    /\ \E t \in Tables, o \in {"SELECT", "ALL"} :
           state = for(on(NewPolicyBuilder(None), t), o)
    /\ nameArg = None
    /\ rls = NewPolicyBuilder(None)
    /\ last = [m |-> "for", arg |-> None]
    /\ ret = This
    /\ retRls = This
    /\ typeCall = "none"
    /\ chains = <<>>
    /\ sb = None /\ mem = None /\ sbLast = None /\ sbRet = None
    /\ TextIdle

IndexWhen == \E c \in IndexConditions :
    /\ state' = when(state, c)
    /\ ret' = This
    /\ last' = [m |-> "when", arg |-> None]
    /\ UNCHANGED <<nameArg, rls, retRls, typeCall, ChainVars, SubqueryVars, TextVars>>

IndexWithCheck == \E c \in IndexConditions :
    /\ state' = withCheck(state, c)
    /\ ret' = This
    /\ last' = [m |-> "withCheck", arg |-> None]
    /\ UNCHANGED <<nameArg, rls, retRls, typeCall, ChainVars, SubqueryVars, TextVars>>

IndexToSQL == \E options \in SQLGenerationOptions :
    /\ ret' = toSQLOptions(state, options)
    /\ last' = [m |-> "toSQL", arg |-> options]
    /\ UNCHANGED <<state, nameArg, rls, retRls, typeCall, ChainVars, SubqueryVars, TextVars>>

NextIndex == IndexWhen \/ IndexWithCheck \/ IndexToSQL

SpecIndex == InitIndex /\ [][NextIndex]_vars

-----------------------------------------------------------------------------
(* Properties of the policy builder.                                       *)

KwCreatePolicy == <<"C","R","E","A","T","E"," ","P","O","L","I","C","Y"," ">>
KwOn == <<" ","O","N"," ">>
KwAsRestrictive == <<" ","A","S"," ","R","E","S","T","R","I","C","T","I","V","E"," ">>
KwAs == <<" ","A","S"," ">>
KwFor == <<" ","F","O","R"," ">>
KwTo == <<" ","T","O"," ">>
KwUsing == <<" ","U","S","I","N","G"," ","(">>
KwWithCheck == <<" ","W","I","T","H"," ","C","H","E","C","K"," ","(">>

\* The clause keywords in the order the statement must carry them.
ClauseKeywords == <<KwOn, KwAsRestrictive, KwFor, KwTo, KwUsing, KwWithCheck>>

\* Whether the builder's state asks for the clause of ClauseKeywords[k].
ClauseExpected(k) ==
    CASE k = 1 -> TRUE
      [] k = 2 -> state.type = Some("RESTRICTIVE")
      [] k = 3 -> TRUE
      [] k = 4 -> state.role # None
      [] k = 5 -> state.using # None
      [] k = 6 -> state.withCheck # None

\* C1: whenever toSQL() returns a statement, the statement starts with
\* CREATE POLICY and carries each of ON, AS RESTRICTIVE, FOR, TO, USING,
\* WITH CHECK exactly once when the builder's state has it and not at all
\* otherwise, always in that order, whatever calls led to the state.
C1_ClauseOrder ==
    (last.m = "toSQL" /\ ret.kind = "sql") =>
        /\ StartsWith(ret.sql, KwCreatePolicy)
        /\ \A k \in 1..Len(ClauseKeywords) :
              Cardinality(Occurrences(ret.sql, ClauseKeywords[k]))
                  = IF ClauseExpected(k) THEN 1 ELSE 0
        /\ \A j, k \in 1..Len(ClauseKeywords) :
              j < k => \A p \in Occurrences(ret.sql, ClauseKeywords[j]) :
                          \A q \in Occurrences(ret.sql, ClauseKeywords[k]) : p < q

\* A statement with all seven clauses was rendered.
C1_Witness ==
    /\ last.m = "toSQL" /\ ret.kind = "sql"
    /\ \A k \in 1..Len(ClauseKeywords) : ClauseExpected(k)
    /\ state.description # None

\* C2: a successful allow(c) writes USING alone for SELECT and DELETE,
\* WITH CHECK alone for INSERT, and both for UPDATE and ALL; every other
\* field of the builder is left as it was.
C2_AllowByOperation ==
    [][(last'.m = "allow" /\ ret'.kind = "this") =>
          LET operation == state.operation[1]
              c == Some(last'.arg)
          IN  /\ operation \in {"SELECT", "DELETE"} =>
                    state' = [state EXCEPT !.using = c]
              /\ operation = "INSERT" =>
                    state' = [state EXCEPT !.withCheck = c]
              /\ operation \in {"UPDATE", "ALL"} =>
                    state' = [state EXCEPT !.using = c, !.withCheck = c]]_vars

\* allow() on an INSERT policy has set WITH CHECK and left another USING in place.
C2_Witness ==
    /\ last.m = "allow" /\ ret.kind = "this"
    /\ state.operation = Some("INSERT")
    /\ state.withCheck = Some(last.arg)
    /\ state.using # None /\ state.using # state.withCheck

\* C3: toSQL() and toDefinition() throw whenever the table or the operation
\* is not set, whatever else was set; what they return then is an error and
\* never a statement or a definition.
C3_MissingFieldThrows ==
    (last.m \in {"toSQL", "toDefinition"}
        /\ (state.table = None \/ state.operation = None))
    => ret.kind = "threw"

\* toSQL() threw on a builder that has everything but its table.
C3_Witness ==
    /\ last.m = "toSQL" /\ ret.kind = "threw"
    /\ state.table = None /\ state.operation # None
    /\ state.using # None /\ state.role # None /\ state.name # None

\* The policy name the last toDefinition()/toSQL() call used is n.
UsedNameIs(n) ==
    /\ ret.kind = "definition" => ret.def.name = n
    /\ ret.kind = "sql" =>
          StartsWith(ret.sql, KwCreatePolicy \o escapeIdentifier(n) \o KwOn)

\* <table>_<operation lowercased>_policy, or ..._restrictive_policy.
AutoName ==
    state.table[1] \o <<"_">> \o ToLowerCase(OperationText(state.operation[1]))
        \o (IF state.type = Some("RESTRICTIVE")
            THEN <<"_","r","e","s","t","r","i","c","t","i","v","e">> ELSE <<>>)
        \o <<"_","p","o","l","i","c","y">>

\* The constructor keeps a name only when it is truthy: policy() and
\* policy("") both leave the builder without a name.
NoNameGiven == nameArg = None \/ nameArg = Some(<<>>)

C5_RestrictiveMarker ==
    (last.m = "toSQL" /\ ret.kind = "sql") =>
        IF typeCall \in {"restrictive", "requireAll"}
        THEN Cardinality(Occurrences(ret.sql, KwAsRestrictive)) = 1
        ELSE ~Contains(ret.sql, KwAs)

\* A policy whose type was last set by allowAny() was rendered.
C5_Witness ==
    /\ last.m = "toSQL" /\ ret.kind = "sql"
    /\ typeCall = "allowAny"
    /\ state.type = Some("PERMISSIVE")

\* C6: the builder driven through read/write/update/delete/all and
\* requireAll/allowAny and its twin driven through for(...) and
\* restrictive/permissive hold the same state after every call, and every
\* call returns the same on both (the same statement, definition or error).
C6_ApiEquivalence == state = rls /\ ret = retRls

\* Both builders rendered the same statement for a policy set up with
\* requireAll() on one and restrictive() on the other.
C6_Witness ==
    /\ last.m = "toSQL" /\ ret.kind = "sql" /\ retRls = ret
    /\ typeCall = "requireAll"
    /\ state.operation = Some("DELETE")

-----------------------------------------------------------------------------
(* Properties of condition chains.                                         *)

IsLogical(c, operator) == c.type = "logical" /\ c.operator = operator

OperatorText(operator) ==
    IF operator = "AND" THEN <<" ","A","N","D"," ">> ELSE <<" ","O","R"," ">>

\* The text (x OP y OP z) of three conditions on one level.
OneLevel(x, y, z, operator) ==
    <<"(">> \o CondToSQL(x) \o OperatorText(operator) \o CondToSQL(y)
        \o OperatorText(operator) \o CondToSQL(z) \o <<")">>

\* C7: for a, b, c that are not nodes of the operator applied, both
\* a.and(b).and(c) and a.and(b.and(c)) render as the one-level text
\* (a AND b AND c), children left to right; the same for or with OR.
C7_Flattening ==
    \A n \in 1..Len(chains) :
        LET e == chains[n]
        IN  e.by \in {"AND", "OR"} =>
              LET x == chains[e.this]
                  y == chains[e.other]
              IN  /\ (/\ x.by = e.by
                      /\ ~IsLogical(chains[x.this].cond, e.by)
                      /\ ~IsLogical(chains[x.other].cond, e.by)
                      /\ ~IsLogical(y.cond, e.by))
                     => CondToSQL(e.cond)
                          = OneLevel(chains[x.this].cond, chains[x.other].cond, y.cond, e.by)
                  /\ (/\ y.by = e.by
                      /\ ~IsLogical(x.cond, e.by)
                      /\ ~IsLogical(chains[y.this].cond, e.by)
                      /\ ~IsLogical(chains[y.other].cond, e.by))
                     => CondToSQL(e.cond)
                          = OneLevel(x.cond, chains[y.this].cond, chains[y.other].cond, e.by)

\* a.and(b.and(c)) was built from three different columns.
C7_Witness ==
    \E n \in 1..Len(chains) :
        /\ chains[n].by = "AND"
        /\ chains[chains[n].this].by = "eq"
        /\ chains[chains[n].other].by = "AND"
        /\ Cardinality({chains[n].this, chains[chains[n].other].this,
                        chains[chains[n].other].other}) = 3
        /\ \A k \in {chains[chains[n].other].this, chains[chains[n].other].other} :
              chains[k].by = "eq"

\* C8: the text of every Logical node starts with an opening and ends with
\* a closing parenthesis, and an operand that is a Logical node of the other
\* operator becomes one child of the new node, rendered whole, in its own
\* parentheses, at its end of the new node's text.
C8_Parenthesized ==
    \A n \in 1..Len(chains) :
        LET e == chains[n]
            text == CondToSQL(e.cond)
        IN  e.by \in {"AND", "OR"} =>
              LET x == chains[e.this].cond
                  y == chains[e.other].cond
                  otherOp == IF e.by = "AND" THEN "OR" ELSE "AND"
              IN  /\ e.cond.type = "logical"
                  /\ Head(text) = "(" /\ text[Len(text)] = ")"
                  /\ IsLogical(x, otherOp) =>
                        /\ e.cond.conditions[1] = x
                        /\ StartsWith(text, <<"(">> \o CondToSQL(x) \o OperatorText(e.by))
                        /\ Head(CondToSQL(x)) = "("
                  /\ IsLogical(y, otherOp) =>
                        /\ e.cond.conditions[Len(e.cond.conditions)] = y
                        /\ EndsWith(text, OperatorText(e.by) \o CondToSQL(y) \o <<")">>)
                        /\ CondToSQL(y)[Len(CondToSQL(y))] = ")"

\* An OR node was passed to and(): the operand has the other operator.
C8_Witness ==
    \E n \in 1..Len(chains) :
        /\ chains[n].by = "AND"
        /\ chains[chains[n].other].by = "OR"
        /\ Len(chains[n].cond.conditions) = 2

-----------------------------------------------------------------------------
(* Properties of the subquery builder.                                     *)

\* The qualifiers of the qualified column references of a condition.
QualifiersOf(c) ==
    LET refs == ColumnReferences(c)
    IN  {Qualifier(refs[i]) : i \in {k \in 1..Len(refs) : IncludesDot(refs[k])}}

\* The alias-or-name of the from table and of the joins of a builder.
Declared(b) ==
    {IF b.fromAlias # None THEN b.fromAlias[1] ELSE b.from}
        \cup {IF b.joins[k].alias # None THEN b.joins[k].alias[1] ELSE b.joins[k].table :
                 k \in 1..Len(b.joins)}

\* C9: where(c) throws the missing-join error, naming the missing tables,
\* if and only if c has a qualified column reference whose qualifier is
\* neither the alias-or-name of the from table nor that of a join added
\* before the call; a condition of unqualified references never throws.
C9_WhereMissingJoin ==
    [][sbLast'.m = "where" =>
          LET c == sbLast'.condition
              dangling == QualifiersOf(c) \ Declared(sb)
          IN  /\ (sbRet'.kind = "threw") <=> (dangling # {})
              /\ sbRet'.kind = "threw" =>
                    /\ StartsWith(sbRet'.err, MissingJoinPrefix)
                    /\ \A q \in dangling : Contains(sbRet'.err, q)
                    /\ sb' = sb
              /\ QualifiersOf(c) = {} => sbRet' = This
              /\ sbRet' = This => sb'.where = Some(c)]_vars

\* where() threw for a qualifier although the builder has a join.
C9_Witness ==
    /\ sbLast.m = "where"
    /\ sbRet.kind = "threw"
    /\ Len(sb.joins) > 0
    /\ QualifiersOf(sbLast.condition) \ Declared(sb) # {}

\* C10: join(table, on, type, alias) accepts an ON condition that refers to
\* the alias, or without alias the table, of the join being added, and
\* throws the unavailable-table error exactly when ON refers to a qualifier
\* that is neither the from alias-or-name, nor an earlier join, nor the
\* target of the join itself.
C10_JoinOwnTarget ==
    [][sbLast'.m = "join" =>
          LET own == IF sbLast'.alias # None THEN sbLast'.alias[1] ELSE sbLast'.table
              outside == QualifiersOf(sbLast'.on) \ (Declared(sb) \cup {own})
          IN  /\ (sbRet'.kind = "threw") <=> (outside # {})
              /\ sbRet'.kind = "threw" =>
                    /\ StartsWith(sbRet'.err, JoinConditionPrefix)
                    /\ \A q \in outside : Contains(sbRet'.err, q)
              /\ sbRet' = This =>
                    /\ Len(sb'.joins) = Len(sb.joins) + 1
                    /\ sb'.joins[Len(sb'.joins)].on = sbLast'.on]_vars

\* A join was accepted whose ON condition refers to its own target, which
\* no earlier call had declared.
C10_Witness ==
    /\ sbLast.m = "join"
    /\ sbRet = This
    /\ LET own == IF sbLast.alias # None THEN sbLast.alias[1] ELSE sbLast.table
           earlier == [sb EXCEPT !.joins = SubSeq(@, 1, Len(@) - 1)]
       IN  /\ own \in QualifiersOf(sbLast.on)
           /\ own \notin Declared(earlier)

\* The nodes of a condition tree, the root included.
RECURSIVE NodesOf(_)
NodesOf(c) ==
    IF c.type = "logical"
    THEN {c} \cup UNION {NodesOf(c.conditions[k]) : k \in 1..Len(c.conditions)}
    ELSE {c}

\* The column reference a node carries, if it carries one.
ReferenceOf(n) ==
    CASE n.type \in {"comparison", "membership"} -> Some(n.column)
      [] n.type = "helper" /\ n.helperType = "isMemberOf" -> Some(n.params.localKey)
      [] OTHER -> None

\* The qualifiers a tree refers to in any of its nodes.
TreeQualifiers(c) ==
    {Qualifier(ReferenceOf(n)[1]) :
        n \in {x \in NodesOf(c) : ReferenceOf(x) # None /\ IncludesDot(ReferenceOf(x)[1])}}

C12_Original ==
    [][(mem # None /\ mem' = mem) =>
          InBuilderToSQL(mem[1], sb') = InBuilderToSQL(mem[1], sb)]_vars

KwJoin == <<" ","J","O","I","N"," ">>
KwFrom == <<" ","F","R","O","M"," ">>
KwWhere == <<" ","W","H","E","R","E"," ">>
KwSelect == <<"(","S","E","L","E","C","T"," ">>

Min(S) == CHOOSE x \in S : \A y \in S : x <= y

\* C13: with one or more joins, the subquery renders as one parenthesized
\* SELECT with exactly one JOIN clause, that of the first join, after the
\* FROM clause and before the WHERE clause; no later join is rendered.
C13_SingleJoin ==
    Len(sb.joins) >= 1 =>
        LET sql == subqueryToSQL(toSubquery(sb))
            first == sb.joins[1]
            clause ==
                <<" ">> \o (IF first.type = "left" THEN <<"L","E","F","T">>
                                                  ELSE <<"I","N","N","E","R">>)
                    \o KwJoin \o escapeIdentifier(first.table)
                    \o (IF first.alias # None THEN <<" ">> \o first.alias[1] ELSE <<>>)
                    \o <<" ","O","N"," ">> \o CondToSQL(first.on)
            joinAt == Occurrences(sql, KwJoin)
            clauseAt == Occurrences(sql, clause)
        IN  /\ StartsWith(sql, KwSelect) /\ sql[Len(sql)] = ")"
            /\ Cardinality(joinAt) = 1
            /\ Cardinality(clauseAt) = 1
            /\ \A at \in clauseAt :
                  /\ Min(Occurrences(sql, KwFrom)) < at
                  /\ IF sb.where = None
                     THEN at + Len(clause) = Len(sql)
                     ELSE SubSeq(sql, at + Len(clause), Len(sql))
                              = KwWhere \o CondToSQL(sb.where[1]) \o <<")">>

\* The membership condition was rendered for a builder with two joins of
\* different tables and a WHERE condition.
C13_Witness ==
    /\ sbLast.m = "toSQL"
    /\ Len(sb.joins) >= 2
    /\ sb.joins[2].table # sb.joins[1].table
    /\ sb.where # None

-----------------------------------------------------------------------------
(* Rendering.                                                              *)

-----------------------------------------------------------------------------
(* Properties of the functions of sql.ts.                                  *)

IsWordChar(c) == IsLower(c) \/ IsUpper(c) \/ IsDigit(c) \/ c = "_"

\* s with every character q written twice.
Doubled(s, q) ==
    Concat([i \in 1..Len(s) |-> IF s[i] = q THEN <<q, q>> ELSE <<s[i]>>])

\* s with every pair q q read as one q.
RECURSIVE Undoubled(_, _)
Undoubled(s, q) ==
    IF s = <<>> THEN <<>>
    ELSE IF Len(s) >= 2 /\ s[1] = q /\ s[2] = q
         THEN <<q>> \o Undoubled(SubSeq(s, 3, Len(s)), q)
         ELSE <<s[1]>> \o Undoubled(Tail(s), q)

\* Every maximal run of q in s has an even length.
InPairs(s, q) ==
    \A i \in 1..Len(s) :
        (s[i] = q /\ (i = 1 \/ s[i - 1] # q)) =>
            \E n \in 1..Len(s) :
                /\ n % 2 = 0
                /\ i + n - 1 <= Len(s)
                /\ \A k \in i..(i + n - 1) : s[k] = q
                /\ (i + n > Len(s) \/ s[i + n] # q)

\* C15 as stated: a name of one or more characters of [A-Za-z0-9_] is
\* returned unchanged, every other name in double quotes with its double
\* quotes doubled.
C15_Original ==
    out.f = "escapeIdentifier" =>
        IF input # <<>> /\ \A i \in 1..Len(input) : IsWordChar(input[i])
        THEN out.res = input
        ELSE out.res = <<"\"">> \o Doubled(input, "\"") \o <<"\"">>

\* C15: a name with no character outside [A-Za-z0-9_], the empty name
\* included, is returned unchanged; every other name is returned in double
\* quotes with each double quote of the name doubled.
C15_EscapeIdentifier ==
    out.f = "escapeIdentifier" =>
        IF \A i \in 1..Len(input) : IsWordChar(input[i])
        THEN out.res = input
        ELSE out.res = <<"\"">> \o Doubled(input, "\"") \o <<"\"">>

\* escapeIdentifier was given a name that holds a double quote.
C15_Witness ==
    /\ out.f = "escapeIdentifier"
    /\ \E i \in 1..Len(input) : input[i] = "\""
    /\ Len(out.res) > Len(input) + 2

\* C16: escapeValue of a string is the string with each single quote
\* doubled, in one pair of single quotes: between the delimiters single
\* quotes come in pairs, and reading each pair as one quote gives the
\* string back.
C16_EscapeValue ==
    out.f = "escapeValue" =>
        LET inner == SubSeq(out.res, 2, Len(out.res) - 1)
        IN  /\ Len(out.res) >= 2
            /\ out.res[1] = "'" /\ out.res[Len(out.res)] = "'"
            /\ inner = Doubled(input, "'")
            /\ InPairs(inner, "'")
            /\ Undoubled(inner, "'") = input

\* escapeValue was given a string with two single quotes in a row and
\* another character.
C16_Witness ==
    /\ out.f = "escapeValue"
    /\ \E i \in 1..(Len(input) - 1) : input[i] = "'" /\ input[i + 1] = "'"
    /\ \E i \in 1..Len(input) : input[i] # "'"

IsNameChar(c) == IsLower(c) \/ IsUpper(c) \/ IsDigit(c)

\* C17: sanitizePolicyName throws for an empty or whitespace-only name and
\* for a name that sanitization leaves empty, one with no letter and no
\* digit; it returns a name, never an empty one, for every other input.
C17_EmptyNameThrows ==
    out.f = "sanitizePolicyName" =>
        /\ (\A i \in 1..Len(input) : input[i] = " ") =>
              out.res = Threw("Policy name cannot be empty")
        /\ ~out.res.ok <=> (\A i \in 1..Len(input) : ~IsNameChar(input[i]))
        /\ out.res.ok => out.res.v # <<>>

\* sanitizePolicyName threw for a name that is not blank.
C17_Witness ==
    /\ out.f = "sanitizePolicyName"
    /\ ~out.res.ok
    /\ \E i \in 1..Len(input) : input[i] # " "

\* The name after lower-casing, replacement of the characters outside
\* [a-z0-9_], collapsing and trimming of underscores, and the underscore put
\* before a leading digit.
SanitizedForm(name) ==
    LET stripped == StripUnderscores(CollapseUnderscores(ReplaceInvalid(ToLowerCase(name))))
    IN  IF stripped # <<>> /\ IsDigit(stripped[1]) THEN <<"_">> \o stripped ELSE stripped

IsLong(name) == Len(SanitizedForm(name)) > POSTGRES_MAX_IDENTIFIER_LENGTH

\* C18: a name whose sanitized form is longer than 63 characters comes back
\* at most 63 characters long, ending with an underscore and the hexadecimal
\* hash of the original name; every other valid name comes back as its
\* sanitized form.
C18_Truncation ==
    (out.f = "sanitizePolicyName" /\ out.res.ok) =>
        IF IsLong(input)
        THEN LET hash == simpleHash(input)
             IN  /\ Len(out.res.v) <= POSTGRES_MAX_IDENTIFIER_LENGTH
                 /\ Len(hash) \in 1..6
                 /\ \A i \in 1..Len(hash) : \E d \in 1..16 : hash[i] = HexDigits[d]
                 /\ EndsWith(out.res.v, <<"_">> \o hash)
                 /\ StartsWith(SanitizedForm(input),
                               SubSeq(out.res.v, 1, Len(out.res.v) - Len(hash) - 1))
        ELSE out.res.v = SanitizedForm(input)

\* sanitizePolicyName returned a truncated name.
C18_Witness ==
    /\ out.f = "sanitizePolicyName"
    /\ out.res.ok
    /\ IsLong(input)
    /\ out.res.v # SanitizedForm(input)

\* C19 as stated: two different names whose sanitized forms are both longer
\* than 63 characters never give the same name.
C19_Original ==
    (/\ out.f = "sanitizePolicyName"
     /\ input # otherName
     /\ IsLong(input)
     /\ IsLong(otherName))
        => out.res # sanitizePolicyName(otherName)

-----------------------------------------------------------------------------
(* Index extraction.                                                       *)

\* The nodes of the USING and WITH CHECK trees of a policy state.
PolicyNodes(s) ==
    (IF s.using # None THEN NodesOf(s.using[1]) ELSE {})
        \cup (IF s.withCheck # None THEN NodesOf(s.withCheck[1]) ELSE {})

IsConstantLiteral(value) == value.vt \in {"null", "boolean", "number", "string"}

\* The unqualified columns of a policy that a node other than a comparison
\* with a constant has indexed on the policy's own table.
OtherwiseIndexed(s) ==
    {n.column : n \in {x \in PolicyNodes(s) :
                          \/ x.type = "comparison" /\ x.operator = "eq"
                                /\ ~IsConstantLiteral(x.value)
                          \/ x.type = "membership"}}
        \cup {n.params.localKey : n \in {x \in PolicyNodes(s) :
                                            x.type = "helper" /\ x.helperType = "isMemberOf"}}

RequestedIndexes ==
    /\ last.m = "toSQL" /\ last.arg = Some([includeIndexes |-> TRUE])
    /\ ret.kind = "sql"

\* C20: with includeIndexes, an equality comparison of a column of the
\* policy table with a context value yields the index statement of (table,
\* column), and an equality comparison of a column with a constant literal
\* yields none for that column, unless another node indexes the column.
C20_Original ==
    RequestedIndexes =>
        \A n \in {x \in PolicyNodes(state) :
                     x.type = "comparison" /\ x.operator = "eq" /\ ~IncludesDot(x.column)} :
            /\ isContextValue(n.value) =>
                   Contains(ret.sql, IndexStatement(state.table[1], n.column))
            /\ (IsConstantLiteral(n.value) /\ n.column \notin OtherwiseIndexed(state)) =>
                   ~Contains(ret.sql, IndexStatement(state.table[1], n.column))

\* The (table, column) pairs of a Map of tables to column Sets.
PairsOf(tableColumns) ==
    UNION {{<<tableColumns[t].table, tableColumns[t].columns[k]>> :
               k \in 1..Len(tableColumns[t].columns)} : t \in 1..Len(tableColumns)}

\* The pairs discovered in the USING and WITH CHECK conditions of a policy.
DiscoveredPairs(s) ==
    PairsOf(extractIndexableColumns(s.using, s.table[1]))
        \cup PairsOf(extractIndexableColumns(s.withCheck, s.table[1]))

\* The lines of a text: its parts between newline characters.
SplitLines(t) ==
    LET breaks == {i \in 1..Len(t) : t[i] = "\n"}
        starts == {1} \cup {i + 1 : i \in breaks}
        ordered == [k \in 1..Cardinality(starts) |->
                       CHOOSE i \in starts : Cardinality({j \in starts : j < i}) = k - 1]
    IN  [k \in 1..Cardinality(starts) |->
            SubSeq(t, ordered[k],
                   IF k < Cardinality(starts) THEN ordered[k + 1] - 2 ELSE Len(t))]

StatementBreak == <<";","\n","\n">>

\* The text that follows the policy statement in the result of toSQL.
AfterPolicy == SubSeq(ret.sql, Len(toSQL(state).sql) + 1, Len(ret.sql))

\* C21: with includeIndexes the result is the policy statement, followed,
\* when a pair was discovered in USING or WITH CHECK, by one CREATE INDEX
\* IF NOT EXISTS statement for each discovered pair and by nothing else: no
\* statement occurs twice, and without a discovered pair the result is the
\* policy statement alone.
C21_OneIndexPerPair ==
    RequestedIndexes =>
        /\ StartsWith(ret.sql, toSQL(state).sql)
        /\ IF DiscoveredPairs(state) = {}
           THEN AfterPolicy = <<>>
           ELSE /\ StartsWith(AfterPolicy, StatementBreak)
                /\ LET lines == SplitLines(SubSeq(AfterPolicy, Len(StatementBreak) + 1,
                                                  Len(AfterPolicy)))
                   IN  /\ \A i, j \in 1..Len(lines) : lines[i] = lines[j] => i = j
                       /\ {lines[i] : i \in 1..Len(lines)}
                              = {IndexStatement(pr[1], pr[2]) : pr \in DiscoveredPairs(state)}

\* Indexes were requested for a policy whose USING condition refers to one
\* column twice and whose WITH CHECK condition yields the same pair again.
C21_Witness ==
    /\ RequestedIndexes
    /\ state.using # None /\ state.withCheck # None
    /\ state.using[1].type = "logical"
    /\ Cardinality({n \in NodesOf(state.using[1]) :
                       n.type = "comparison" /\ isContextValue(n.value)}) >= 2
    /\ Cardinality(PairsOf(extractIndexableColumns(state.using, state.table[1]))) = 1
    /\ DiscoveredPairs(state)
           = PairsOf(extractIndexableColumns(state.withCheck, state.table[1]))

\* The aliases a builder declares, each with the table it stands for.
DeclaredAliases(b) ==
    (IF Truthy(b.fromAlias) THEN {[alias |-> b.fromAlias[1], table |-> b.from]} ELSE {})
        \cup {[alias |-> b.joins[k].alias[1], table |-> b.joins[k].table] :
                 k \in {i \in 1..Len(b.joins) : Truthy(b.joins[i].alias)}}

\* The nodes of the WHERE condition and of the ON conditions of a builder.
BuilderNodes(b) ==
    (IF b.where # None THEN NodesOf(b.where[1]) ELSE {})
        \cup UNION {NodesOf(b.joins[k].on) : k \in 1..Len(b.joins)}

\* The builders held by the membership nodes of a policy.
PolicyBuilders(s) ==
    {n.value.b : n \in {x \in PolicyNodes(s) :
                           x.type = "membership" /\ x.value.vt = "builder"}}

\* The ON part of an index statement for a table.
OnTable(table) == <<" ","O","N"," ">> \o escapeIdentifier(table) \o <<" ","(">>

\* C22: with includeIndexes, no index statement is on an alias that a
\* subquery of the policy declares for its from table or for a join, and a
\* column compared for equality with a context value through such an alias,
\* in the WHERE or in a JOIN ON condition of the subquery, has its index
\* statement on the table the alias was declared for.
C22_Original ==
    RequestedIndexes =>
        \A b \in PolicyBuilders(state) : \A d \in DeclaredAliases(b) :
            /\ ~Contains(ret.sql, OnTable(d.alias))
            /\ \A x \in {y \in BuilderNodes(b) :
                            /\ y.type = "comparison" /\ y.operator = "eq"
                            /\ isContextValue(y.value)
                            /\ IncludesDot(y.column) /\ FirstPart(y.column) = d.alias} :
                   Contains(ret.sql, IndexStatement(d.table, SecondPart(x.column)))

-----------------------------------------------------------------------------
(* Properties of condition chains, continued.                              *)

\* C23: every Logical node of every chain built by and() and or() from
\* comparisons has at least two children, and none of its children is a
\* Logical node with the operator of the node.
C23_LogicalShape ==
    \A n \in 1..Len(chains) :
        \A x \in {y \in NodesOf(chains[n].cond) : y.type = "logical"} :
            /\ Len(x.conditions) >= 2
            /\ \A k \in 1..Len(x.conditions) :
                  ~(x.conditions[k].type = "logical"
                        /\ x.conditions[k].operator = x.operator)

\* A chain was built from two Logical operands of its own operator, whose
\* children were spliced into one node.
C23_Witness ==
    \E n \in 1..Len(chains) :
        /\ chains[n].by \in {"AND", "OR"}
        /\ chains[chains[n].this].by = chains[n].by
        /\ chains[chains[n].other].by = chains[n].by
        /\ Len(chains[n].cond.conditions) >= 4

\* C24: a call of and() or or() leaves every chain that exists, its two
\* operands and the chains built from them earlier included, with the same
\* condition and the same SQL text, and returns a new chain.
C24_OperandsUnchanged ==
    [][/\ Len(chains') = Len(chains) + 1
       /\ \A n \in 1..Len(chains) :
             /\ chains'[n].cond = chains[n].cond
             /\ CondToSQL(chains'[n].cond) = CondToSQL(chains[n].cond)]_chains

\* One chain was an operand of two compositions, with Logical results that
\* differ.
C24_Witness ==
    \E n, m \in 1..Len(chains) :
        /\ n < m
        /\ chains[n].by # "eq" /\ chains[m].by # "eq"
        /\ chains[m].this = chains[n].this
        /\ chains[m].cond # chains[n].cond

-----------------------------------------------------------------------------
(* Properties of the subquery builder, continued.                          *)

\* C25: a where() or join() call that throws leaves the builder as it was:
\* the stored WHERE condition and the list of joins are those of before the
\* call, and toSubquery() returns the definition it returned before.
C25_FailedCallNoChange ==
    [][(sbLast'.m \in {"where", "join"} /\ sbRet'.kind = "threw") =>
           /\ sb'.where = sb.where
           /\ sb'.joins = sb.joins
           /\ toSubquery(sb') = toSubquery(sb)]_<<sb, sbLast, sbRet>>

\* A join() call threw on a builder that holds a join and a WHERE condition.
C25_Witness ==
    /\ sbLast.m = "join"
    /\ sbRet.kind = "threw"
    /\ sb.where # None
    /\ Len(sb.joins) = 1

-----------------------------------------------------------------------------
(* Properties of the policy builder, continued.                            *)

\* C26: when conditions are set through allow() only and one was set, the
\* statement toSQL() returns has a USING clause exactly when the operation of the policy is
\* SELECT, DELETE, UPDATE or ALL, and a WITH CHECK clause exactly when it is
\* INSERT, UPDATE or ALL.
C26_Original ==
    (last.m = "toSQL" /\ ret.kind = "sql" /\ (state.using # None \/ state.withCheck # None)) =>
        LET operation == state.operation[1]
        IN  /\ Contains(ret.sql, KwUsing)
                <=> operation \in {"SELECT", "DELETE", "UPDATE", "ALL"}
            /\ Contains(ret.sql, KwWithCheck)
                <=> operation \in {"INSERT", "UPDATE", "ALL"}

-----------------------------------------------------------------------------
(* Properties of the rendered subquery.                                    *)

\* The names the clauses subqueryToSQL renders declare: the alias or else
\* the name of the FROM table and of the table of the JOIN clause.
RenderedQualifiers(subquery) ==
    {AliasOrName(subquery.from, subquery.alias)}
        \cup (IF subquery.join # None
              THEN {AliasOrName(subquery.join[1].table, subquery.join[1].alias)}
              ELSE {})

\* C27: every qualifier that the WHERE condition of a builder refers to is
\* declared by the FROM clause or by a JOIN clause of the subquery as it is
\* rendered.
C27_Original ==
    sb.where # None =>
        QualifiersOf(sb.where[1]) \subseteq RenderedQualifiers(toSubquery(sb))

\* C28: the condition in(sb) of a typed column builder renders, after its
\* qualified column, the subquery text that the condition in(sb) of an
\* untyped column builder renders, with the alias, the JOIN clause and the
\* WHERE clause of sb.
C28_Original ==
    sbLast.m = "typedToSQL" =>
        /\ sbRet.kind = "sql"
        /\ sbRet.sql = escapeQualifiedIdentifier(<<"d","o","c","s">>, <<"i","d">>)
                           \o <<" ","I","N"," ">> \o subqueryToSQL(toSubquery(sb))

-----------------------------------------------------------------------------
(* Properties of the functions of sql.ts and context.ts, continued.        *)

\* C29: the key of session.get(key, type) is rendered inside the quotes of
\* current_setting with each of its single quotes doubled, as escapeValue
\* renders a string.
C29_Original ==
    out.f = "session.get" =>
        out.res = <<"c","u","r","r","e","n","t","_","s","e","t","t","i","n","g","(">>
                      \o escapeValue(StringValue(input))
                      \o <<",", " ", "t", "r", "u", "e", ")">> \o TypeCast(out.type)

\* C30: a name that sanitizePolicyName returns is returned unchanged by a
\* second call; it holds only lower-case letters, digits and underscores,
\* no two underscores in a row, no underscore at its end and no digit at
\* its start, and is at most 63 characters long.
C30_Original ==
    (out.f = "sanitizePolicyName" /\ out.res.ok) =>
        LET v == out.res.v
        IN  /\ sanitizePolicyName(v) = Value(v)
            /\ \A i \in 1..Len(v) : IsLower(v[i]) \/ IsDigit(v[i]) \/ v[i] = "_"
            /\ \A i \in 1..(Len(v) - 1) : ~(v[i] = "_" /\ v[i + 1] = "_")
            /\ v[Len(v)] # "_"
            /\ ~IsDigit(v[1])
            /\ Len(v) <= POSTGRES_MAX_IDENTIFIER_LENGTH

====
